---- MODULE Spec2Model ----
(***************************************************************************)
(* A model of the agentic-tool-digest research pipeline:                   *)
(*   - the sentiment scorer and the sentiment gathering of                 *)
(*     server/research-agent-server.mjs,                                   *)
(*   - the ClaudeResearchControls client component, and                    *)
(*   - the Pipeline Controller it talks to.                                *)
(***************************************************************************)
EXTENDS Integers, Sequences, FiniteSets, Bags, TLC

(***************************************************************************)
(* Bounds of the model.                                                    *)
(***************************************************************************)
\* Largest number of filler tokens put in front of a scored text.
MaxFill == 51
\* Largest number of results a search provider's payload holds.
MaxPayload == 3
\* Largest number of start actions the client control fires.
MaxStarts == 2
\* Largest number of start actions when the stream and the status checks run too.
MaxClicks == 1
\* Largest number of status requests in flight at once.
MaxPolls == 1
\* Largest number of entries handed to summariseSentiment on its own.
MaxEntries == 3

(***************************************************************************)
(* Program constants of server/research-agent-server.mjs.                  *)
(***************************************************************************)
DEFAULT_MAX_RESULTS == 6
DEFAULT_MAX_ARTICLES == 3
MAX_RESULTS_CAP == 10
MAX_ARTICLES_CAP == 5

(***************************************************************************)
(* The state.                                                              *)
(***************************************************************************)
VARIABLES
  sText,          \* the text handed to analyzeSentiment
  sResult,        \* <<r>> once analyzeSentiment has returned r for it, else <<>>
  arg,            \* the argument of a function called on its own
  ret,            \* <<r>> once that function has returned r, else <<>>
  lexicon,        \* the Sets positiveWords and negativeWords as they are now
  searchProvider, \* SEARCH_PROVIDER, read from the environment at load time
  providers,      \* how each provider answers, by name
  toolsMap,       \* the tools map: what registerTool has put into it, in order
  requests,       \* POST /mcp: the requests received, each with its handler call
  call,           \* the call in progress: its operation and arguments
  gpc,            \* where the call is: idle, search, loop, done
  searchResults,  \* gatherPublicSentiment: what performSearch returned
  gi,             \* gatherPublicSentiment: the index of the loop's next result
  mentions,       \* gatherPublicSentiment: the mentions pushed so far
  fetchLog,       \* gatherPublicSentiment: what each fetch of the call did
  outcome,        \* what the call returned or threw (kind "none" before)
  runs,           \* controller: the Runs started so far, the last one current
  catalog,        \* the persisted catalog: the StoredTools, as load() returns them
  posts,          \* start requests on their way to the controller (a bag)
  responses,      \* answers to start requests on their way back (a bag)
  polls,          \* status requests and their answers in flight (a bag)
  conns,          \* the EventSource objects the client created, in order
  timers,         \* the client's running setInterval timers (a bag)
  eventSourceRef, \* eventSourceRef.current: an index of conns, or 0 for null
  isResearching,  \* React state of ClaudeResearchControls
  rendered,       \* isResearching as of the render the page shows
  status,         \* React state: status.status, or "null"
  progressLog,    \* React state
  isConnectedToStream, \* React state
  mounted,        \* whether the component is mounted
  budget,         \* how many times the user will still press the start button
  toolsSection,   \* ToolsSection: its React state and its fetches in flight
  researchControls, \* ResearchControls of the header: state, timers, requests
  tagSelector     \* TagSelector: the selected and the custom tags

(***************************************************************************)
(* Characters and strings.  A text is a sequence of one-character strings; *)
(* a token is a string.                                                    *)
(***************************************************************************)
LowerLetters ==
  <<"a","b","c","d","e","f","g","h","i","j","k","l","m",
    "n","o","p","q","r","s","t","u","v","w","x","y","z">>
UpperLetters ==
  <<"A","B","C","D","E","F","G","H","I","J","K","L","M",
    "N","O","P","Q","R","S","T","U","V","W","X","Y","Z">>
Digits == <<"0","1","2","3","4","5","6","7","8","9">>

Range(s) == {s[i] : i \in DOMAIN s}

\* The upper-case characters beyond U+007F and, place by place, their lower
\* case, for every upper-case character a string of this module can hold
\* (one of U+0000..U+00FF, or one of the Basic Multilingual Plane whose code
\* ends in a byte of 80..FF), the letters of Unicode 16 and 17 included.  A
\* lower-case character that no string of this module can hold is written
\* by its code point: "U+0253" stands for the one character U+0253, the
\* lower case of U+0181.  Such a character is one element of a text, like
\* any other; it is no letter of a..z, no digit and no white space, and no
\* text that is given to the program holds one.
OtherUpperLetters ==
  <<"À","Á","Â","Ã","Ä","Å","Æ","Ç","È","É","Ê","Ë","Ì",
    "Í","Î","Ï","Ð","Ñ","Ò","Ó","Ô","Õ","Ö","Ø","Ù","Ú",
    "Û","Ü","Ý","Þ","Ƃ","Ƅ","Ƈ","Ƌ","Ǝ","Ƒ","Ƙ","Ơ","Ƣ",
    "Ƥ","Ʀ","Ƨ","Ʃ","Ƭ","Ʈ","Ư","Ʊ","Ʋ","Ƴ","Ƶ","Ʒ","Ƹ",
    "Ƽ","Ǆ","ǅ","Ǉ","ǈ","Ǌ","ǋ","Ǎ","Ǐ","Ǒ","Ǔ","Ǖ","Ǘ",
    "Ǚ","Ǜ","Ǟ","Ǡ","Ǣ","Ǥ","Ǧ","Ǩ","Ǫ","Ǭ","Ǯ","Ǳ","ǲ",
    "Ǵ","Ƕ","Ƿ","Ǹ","Ǻ","Ǽ","Ǿ","Ά","Έ","Ή","Ί","Ό","Ύ",
    "Ώ","Α","Β","Γ","Δ","Ε","Ζ","Η","Θ","Ι","Κ","Λ","Μ",
    "Ν","Ξ","Ο","Π","Ρ","Σ","Τ","Υ","Φ","Χ","Ψ","Ω","Ϊ",
    "Ϋ","Ϗ","Ϙ","Ϛ","Ϝ","Ϟ","Ϡ","Ϣ","Ϥ","Ϧ","Ϩ","Ϫ","Ϭ",
    "Ϯ","ϴ","Ϸ","Ϲ","Ϻ","Ҁ","Ҋ","Ҍ","Ҏ","Ґ","Ғ","Ҕ","Җ",
    "Ҙ","Қ","Ҝ","Ҟ","Ҡ","Ң","Ҥ","Ҧ","Ҩ","Ҫ","Ҭ","Ү","Ұ",
    "Ҳ","Ҵ","Ҷ","Ҹ","Һ","Ҽ","Ҿ","Ӏ","Ӂ","Ӄ","Ӆ","Ӈ","Ӊ",
    "Ӌ","Ӎ","Ӑ","Ӓ","Ӕ","Ӗ","Ә","Ӛ","Ӝ","Ӟ","Ӡ","Ӣ","Ӥ",
    "Ӧ","Ө","Ӫ","Ӭ","Ӯ","Ӱ","Ӳ","Ӵ","Ӷ","Ӹ","Ӻ","Ӽ","Ӿ",
    "Ꮀ","Ꮁ","Ꮂ","Ꮃ","Ꮄ","Ꮅ","Ꮆ","Ꮇ","Ꮈ","Ꮉ","Ꮊ","Ꮋ","Ꮌ",
    "Ꮍ","Ꮎ","Ꮏ","Ꮐ","Ꮑ","Ꮒ","Ꮓ","Ꮔ","Ꮕ","Ꮖ","Ꮗ","Ꮘ","Ꮙ",
    "Ꮚ","Ꮛ","Ꮜ","Ꮝ","Ꮞ","Ꮟ","Ꮠ","Ꮡ","Ꮢ","Ꮣ","Ꮤ","Ꮥ","Ꮦ",
    "Ꮧ","Ꮨ","Ꮩ","Ꮪ","Ꮫ","Ꮬ","Ꮭ","Ꮮ","Ꮯ","Ꮰ","Ꮱ","Ꮲ","Ꮳ",
    "Ꮴ","Ꮵ","Ꮶ","Ꮷ","Ꮸ","Ꮹ","Ꮺ","Ꮻ","Ꮼ","Ꮽ","Ꮾ","Ꮿ","Ᏸ",
    "Ᏹ","Ᏺ","Ᏻ","Ᏼ","Ᏽ","Ა","Ბ","Გ","Დ","Ე","Ვ","Ზ","Თ",
    "Ი","Კ","Ლ","Მ","Ნ","Ო","Პ","Ჟ","Რ","Ს","Ტ","Უ","Ფ",
    "Ქ","Ღ","Ყ","Შ","Ჩ","Ც","Ძ","Წ","Ჭ","Ხ","Ჯ","Ჰ","Ჱ",
    "Ჲ","Ჳ","Ჴ","Ჵ","Ჶ","Ჷ","Ჸ","Ჹ","Ჺ","Ჽ","Ჾ","Ჿ","Ẁ",
    "Ẃ","Ẅ","Ẇ","Ẉ","Ẋ","Ẍ","Ẏ","Ẑ","Ẓ","Ẕ","ẞ","Ạ","Ả",
    "Ấ","Ầ","Ẩ","Ẫ","Ậ","Ắ","Ằ","Ẳ","Ẵ","Ặ","Ẹ","Ẻ","Ẽ",
    "Ế","Ề","Ể","Ễ","Ệ","Ỉ","Ị","Ọ","Ỏ","Ố","Ồ","Ổ","Ỗ",
    "Ộ","Ớ","Ờ","Ở","Ỡ","Ợ","Ụ","Ủ","Ứ","Ừ","Ử","Ữ","Ự",
    "Ỳ","Ỵ","Ỷ","Ỹ","Ỻ","Ỽ","Ỿ","ᾈ","ᾉ","ᾊ","ᾋ","ᾌ","ᾍ",
    "ᾎ","ᾏ","ᾘ","ᾙ","ᾚ","ᾛ","ᾜ","ᾝ","ᾞ","ᾟ","ᾨ","ᾩ","ᾪ",
    "ᾫ","ᾬ","ᾭ","ᾮ","ᾯ","Ᾰ","Ᾱ","ᾼ","ῌ","Ῐ","Ῑ","Ῠ","Ῡ",
    "Ῥ","ῼ","Ↄ","Ⓐ","Ⓑ","Ⓒ","Ⓓ","Ⓔ","Ⓕ","Ⓖ","Ⓗ","Ⓘ","Ⓙ",
    "Ⓚ","Ⓛ","Ⓜ","Ⓝ","Ⓞ","Ⓟ","Ⓠ","Ⓡ","Ⓢ","Ⓣ","Ⓤ","Ⓥ","Ⓦ",
    "Ⓧ","Ⓨ","Ⓩ","Ⲁ","Ⲃ","Ⲅ","Ⲇ","Ⲉ","Ⲋ","Ⲍ","Ⲏ","Ⲑ","Ⲓ",
    "Ⲕ","Ⲗ","Ⲙ","Ⲛ","Ⲝ","Ⲟ","Ⲡ","Ⲣ","Ⲥ","Ⲧ","Ⲩ","Ⲫ","Ⲭ",
    "Ⲯ","Ⲱ","Ⲳ","Ⲵ","Ⲷ","Ⲹ","Ⲻ","Ⲽ","Ⲿ","Ⳁ","Ⳃ","Ⳅ","Ⳇ",
    "Ⳉ","Ⳋ","Ⳍ","Ⳏ","Ⳑ","Ⳓ","Ⳕ","Ⳗ","Ⳙ","Ⳛ","Ⳝ","Ⳟ","Ⳡ",
    "Ⳣ","Ⳬ","Ⳮ","Ⳳ","Ꚁ","Ꚃ","Ꚅ","Ꚇ","Ꚉ","Ꚋ","Ꚍ","Ꚏ","Ꚑ",
    "Ꚓ","Ꚕ","Ꚗ","Ꚙ","Ꚛ","Ꞁ","Ꞃ","Ꞅ","Ꞇ","Ꞌ","Ꞑ","Ꞓ","Ꞗ",
    "Ꞙ","Ꞛ","Ꞝ","Ꞟ","Ꞡ","Ꞣ","Ꞥ","Ꞧ","Ꞩ","Ʞ","Ʇ","Ʝ","Ꞵ",
    "Ꞷ","Ꞹ","Ꞻ","Ꞽ","Ꞿ","Ꟁ","Ꟃ","Ꞔ","Ʂ","Ᶎ","Ꟈ","Ꟊ","Ꟑ",
    "Ꟗ","Ꟙ","Ꟶ",
    "Ᲊ","Ꟍ","Ꟛ","Ƛ","꟎","꟒","꟔",
    "Ɓ","Ɔ","Ɖ","Ɗ","Ə","Ɛ","Ɠ","Ɣ","Ɩ","Ɨ","Ɯ","Ɲ","Ɵ",
    "Ͻ","Ͼ","Ͽ","Ⴀ","Ⴁ","Ⴂ","Ⴃ","Ⴄ","Ⴅ","Ⴆ","Ⴇ","Ⴈ","Ⴉ",
    "Ⴊ","Ⴋ","Ⴌ","Ⴍ","Ⴎ","Ⴏ","Ⴐ","Ⴑ","Ⴒ","Ⴓ","Ⴔ","Ⴕ","Ⴖ",
    "Ⴗ","Ⴘ","Ⴙ","Ⴚ","Ⴛ","Ⴜ","Ⴝ","Ⴞ","Ⴟ","Ⴠ","Ⴡ","Ⴢ","Ⴣ",
    "Ⴤ","Ⴥ","Ⴧ","Ⴭ","Ꭰ","Ꭱ","Ꭲ","Ꭳ","Ꭴ","Ꭵ","Ꭶ","Ꭷ","Ꭸ",
    "Ꭹ","Ꭺ","Ꭻ","Ꭼ","Ꭽ","Ꭾ","Ꭿ","Ὰ","Ά","Ὲ","Έ","Ὴ","Ή",
    "Ὶ","Ί","Ὺ","Ύ","Ὸ","Ό","Ὼ","Ώ","Ɥ","Ɦ","Ɜ","Ɡ","Ɬ",
    "Ɪ","Ꭓ","Ɤ">>
OtherLowerLetters ==
  <<"à","á","â","ã","ä","å","æ","ç","è","é","ê","ë","ì",
    "í","î","ï","ð","ñ","ò","ó","ô","õ","ö","ø","ù","ú",
    "û","ü","ý","þ","ƃ","ƅ","ƈ","ƌ","ǝ","ƒ","ƙ","ơ","ƣ",
    "ƥ","ʀ","ƨ","ʃ","ƭ","ʈ","ư","ʊ","ʋ","ƴ","ƶ","ʒ","ƹ",
    "ƽ","ǆ","ǆ","ǉ","ǉ","ǌ","ǌ","ǎ","ǐ","ǒ","ǔ","ǖ","ǘ",
    "ǚ","ǜ","ǟ","ǡ","ǣ","ǥ","ǧ","ǩ","ǫ","ǭ","ǯ","ǳ","ǳ",
    "ǵ","ƕ","ƿ","ǹ","ǻ","ǽ","ǿ","ά","έ","ή","ί","ό","ύ",
    "ώ","α","β","γ","δ","ε","ζ","η","θ","ι","κ","λ","μ",
    "ν","ξ","ο","π","ρ","σ","τ","υ","φ","χ","ψ","ω","ϊ",
    "ϋ","ϗ","ϙ","ϛ","ϝ","ϟ","ϡ","ϣ","ϥ","ϧ","ϩ","ϫ","ϭ",
    "ϯ","θ","ϸ","ϲ","ϻ","ҁ","ҋ","ҍ","ҏ","ґ","ғ","ҕ","җ",
    "ҙ","қ","ҝ","ҟ","ҡ","ң","ҥ","ҧ","ҩ","ҫ","ҭ","ү","ұ",
    "ҳ","ҵ","ҷ","ҹ","һ","ҽ","ҿ","ӏ","ӂ","ӄ","ӆ","ӈ","ӊ",
    "ӌ","ӎ","ӑ","ӓ","ӕ","ӗ","ә","ӛ","ӝ","ӟ","ӡ","ӣ","ӥ",
    "ӧ","ө","ӫ","ӭ","ӯ","ӱ","ӳ","ӵ","ӷ","ӹ","ӻ","ӽ","ӿ",
    "ꮀ","ꮁ","ꮂ","ꮃ","ꮄ","ꮅ","ꮆ","ꮇ","ꮈ","ꮉ","ꮊ","ꮋ","ꮌ",
    "ꮍ","ꮎ","ꮏ","ꮐ","ꮑ","ꮒ","ꮓ","ꮔ","ꮕ","ꮖ","ꮗ","ꮘ","ꮙ",
    "ꮚ","ꮛ","ꮜ","ꮝ","ꮞ","ꮟ","ꮠ","ꮡ","ꮢ","ꮣ","ꮤ","ꮥ","ꮦ",
    "ꮧ","ꮨ","ꮩ","ꮪ","ꮫ","ꮬ","ꮭ","ꮮ","ꮯ","ꮰ","ꮱ","ꮲ","ꮳ",
    "ꮴ","ꮵ","ꮶ","ꮷ","ꮸ","ꮹ","ꮺ","ꮻ","ꮼ","ꮽ","ꮾ","ꮿ","ᏸ",
    "ᏹ","ᏺ","ᏻ","ᏼ","ᏽ","ა","ბ","გ","დ","ე","ვ","ზ","თ",
    "ი","კ","ლ","მ","ნ","ო","პ","ჟ","რ","ს","ტ","უ","ფ",
    "ქ","ღ","ყ","შ","ჩ","ც","ძ","წ","ჭ","ხ","ჯ","ჰ","ჱ",
    "ჲ","ჳ","ჴ","ჵ","ჶ","ჷ","ჸ","ჹ","ჺ","ჽ","ჾ","ჿ","ẁ",
    "ẃ","ẅ","ẇ","ẉ","ẋ","ẍ","ẏ","ẑ","ẓ","ẕ","ß","ạ","ả",
    "ấ","ầ","ẩ","ẫ","ậ","ắ","ằ","ẳ","ẵ","ặ","ẹ","ẻ","ẽ",
    "ế","ề","ể","ễ","ệ","ỉ","ị","ọ","ỏ","ố","ồ","ổ","ỗ",
    "ộ","ớ","ờ","ở","ỡ","ợ","ụ","ủ","ứ","ừ","ử","ữ","ự",
    "ỳ","ỵ","ỷ","ỹ","ỻ","ỽ","ỿ","ᾀ","ᾁ","ᾂ","ᾃ","ᾄ","ᾅ",
    "ᾆ","ᾇ","ᾐ","ᾑ","ᾒ","ᾓ","ᾔ","ᾕ","ᾖ","ᾗ","ᾠ","ᾡ","ᾢ",
    "ᾣ","ᾤ","ᾥ","ᾦ","ᾧ","ᾰ","ᾱ","ᾳ","ῃ","ῐ","ῑ","ῠ","ῡ",
    "ῥ","ῳ","ↄ","ⓐ","ⓑ","ⓒ","ⓓ","ⓔ","ⓕ","ⓖ","ⓗ","ⓘ","ⓙ",
    "ⓚ","ⓛ","ⓜ","ⓝ","ⓞ","ⓟ","ⓠ","ⓡ","ⓢ","ⓣ","ⓤ","ⓥ","ⓦ",
    "ⓧ","ⓨ","ⓩ","ⲁ","ⲃ","ⲅ","ⲇ","ⲉ","ⲋ","ⲍ","ⲏ","ⲑ","ⲓ",
    "ⲕ","ⲗ","ⲙ","ⲛ","ⲝ","ⲟ","ⲡ","ⲣ","ⲥ","ⲧ","ⲩ","ⲫ","ⲭ",
    "ⲯ","ⲱ","ⲳ","ⲵ","ⲷ","ⲹ","ⲻ","ⲽ","ⲿ","ⳁ","ⳃ","ⳅ","ⳇ",
    "ⳉ","ⳋ","ⳍ","ⳏ","ⳑ","ⳓ","ⳕ","ⳗ","ⳙ","ⳛ","ⳝ","ⳟ","ⳡ",
    "ⳣ","ⳬ","ⳮ","ⳳ","ꚁ","ꚃ","ꚅ","ꚇ","ꚉ","ꚋ","ꚍ","ꚏ","ꚑ",
    "ꚓ","ꚕ","ꚗ","ꚙ","ꚛ","ꞁ","ꞃ","ꞅ","ꞇ","ꞌ","ꞑ","ꞓ","ꞗ",
    "ꞙ","ꞛ","ꞝ","ꞟ","ꞡ","ꞣ","ꞥ","ꞧ","ꞩ","ʞ","ʇ","ʝ","ꞵ",
    "ꞷ","ꞹ","ꞻ","ꞽ","ꞿ","ꟁ","ꟃ","ꞔ","ʂ","ᶎ","ꟈ","ꟊ","ꟑ",
    "ꟗ","ꟙ","ꟶ",
    "ᲊ","ꟍ","ꟛ","ƛ","꟏","ꟓ","ꟕ",
    "U+0253","U+0254","U+0256","U+0257","U+0259","U+025B","U+0260","U+0263",
    "U+0269","U+0268","U+026F","U+0272","U+0275","U+037B","U+037C","U+037D",
    "U+2D00","U+2D01","U+2D02","U+2D03","U+2D04","U+2D05","U+2D06","U+2D07",
    "U+2D08","U+2D09","U+2D0A","U+2D0B","U+2D0C","U+2D0D","U+2D0E","U+2D0F",
    "U+2D10","U+2D11","U+2D12","U+2D13","U+2D14","U+2D15","U+2D16","U+2D17",
    "U+2D18","U+2D19","U+2D1A","U+2D1B","U+2D1C","U+2D1D","U+2D1E","U+2D1F",
    "U+2D20","U+2D21","U+2D22","U+2D23","U+2D24","U+2D25","U+2D27","U+2D2D",
    "U+AB70","U+AB71","U+AB72","U+AB73","U+AB74","U+AB75","U+AB76","U+AB77",
    "U+AB78","U+AB79","U+AB7A","U+AB7B","U+AB7C","U+AB7D","U+AB7E","U+AB7F",
    "U+1F70","U+1F71","U+1F72","U+1F73","U+1F74","U+1F75","U+1F76","U+1F77",
    "U+1F7A","U+1F7B","U+1F78","U+1F79","U+1F7C","U+1F7D","U+0265","U+0266",
    "U+025C","U+0261","U+026C","U+026A","U+AB53","U+0264">>

\* The lower case of every upper-case character above.
LowerCaseOf ==
  [c \in Range(UpperLetters) \cup Range(OtherUpperLetters) |->
     IF c \in Range(UpperLetters)
       THEN LowerLetters[CHOOSE i \in DOMAIN UpperLetters : UpperLetters[i] = c]
       ELSE OtherLowerLetters[CHOOSE i \in DOMAIN OtherUpperLetters :
                                OtherUpperLetters[i] = c]]

\* String.prototype.toLowerCase on one character, a capital sigma being
\* taken as not final.
ToLowerChar(c) == IF c \in DOMAIN LowerCaseOf THEN LowerCaseOf[c] ELSE c

\* The characters that /[^a-z0-9]+/ does NOT match.
IsTokenChar(c) == c \in Range(LowerLetters) \cup Range(Digits)

\* /\s/ and the white space of trim(): blank, line feed, tab, carriage
\* return, form feed, and the line tabulation U+000B, the no-break space
\* U+00A0, the ogham space mark U+1680 and the byte order mark U+FEFF.  The
\* other white space of the language (U+2000..U+200A, U+2028, U+2029,
\* U+202F, U+205F, U+3000) cannot be written in a string of this module.
IsSpace(c) ==
  c \in {" ", "\n", "\t", "\r", "\f", "", " ", " ", "﻿"}

\* The characters with the property Case_Ignorable, and those with the
\* property Cased and not Case_Ignorable, among the characters a string of
\* this module can hold.
CaseIgnorable ==
  {"'",".",":","^","¨","­","¯","´","·","¸","ʰ","ʱ","ʲ",
    "ʳ","ʴ","ʵ","ʶ","ʷ","ʸ","ʹ","ʺ","ʻ","ʼ","ʽ","ʾ","ʿ",
    "ˀ","ˁ","˂","˃","˄","˅","ˆ","ˇ","ˈ","ˉ","ˊ","ˋ","ˌ",
    "ˍ","ˎ","ˏ","ː","ˑ","˒","˓","˔","˕","˖","˗","˘","˙",
    "˚","˛","˜","˝","˞","˟","ˠ","ˡ","ˢ","ˣ","ˤ","˥","˦",
    "˧","˨","˩","˪","˫","ˬ","˭","ˮ","˯","˰","˱","˲","˳",
    "˴","˵","˶","˷","˸","˹","˺","˻","˼","˽","˾","˿","΄",
    "΅","·","҃","҄","҅","҆","҇","҈","҉","֑","֒","֓","֔",
    "֕","֖","֗","֘","֙","֚","֛","֜","֝","֞","֟","֠","֡",
    "֢","֣","֤","֥","֦","֧","֨","֩","֪","֫","֬","֭","֮",
    "֯","ְ","ֱ","ֲ","ֳ","ִ","ֵ","ֶ","ַ","ָ","ֹ","ֺ","ֻ",
    "ּ","ֽ","ֿ","ׁ","ׂ","ׄ","ׅ","ׇ","״","ۖ","ۗ","ۘ","ۙ",
    "ۚ","ۛ","ۜ","۝","۟","۠","ۡ","ۢ","ۣ","ۤ","ۥ","ۦ","ۧ",
    "ۨ","۪","۫","۬","ۭ","ަ","ާ","ި","ީ","ު","ޫ","ެ","ޭ",
    "ޮ","ޯ","ް","߫","߬","߭","߮","߯","߰","߱","߲","߳","ߴ",
    "ߵ","ߺ","߽","࢈","࢐","࢑","࢘","࢙","࢚","࢛","࢜","࢝","࢞",
    "࢟","ࣉ","࣊","࣋","࣌","࣍","࣎","࣏","࣐","࣑","࣒","࣓","ࣔ",
    "ࣕ","ࣖ","ࣗ","ࣘ","ࣙ","ࣚ","ࣛ","ࣜ","ࣝ","ࣞ","ࣟ","࣠","࣡",
    "࣢","ࣣ","ࣤ","ࣥ","ࣦ","ࣧ","ࣨ","ࣩ","࣪","࣫","࣬","࣭","࣮",
    "࣯","ࣰ","ࣱ","ࣲ","ࣳ","ࣴ","ࣵ","ࣶ","ࣷ","ࣸ","ࣹ","ࣺ","ࣻ",
    "ࣼ","ࣽ","ࣾ","ࣿ","ঁ","়","ু","ূ","ৃ","ৄ","্","ৢ","ৣ",
    "৾","ઁ","ં","઼","ુ","ૂ","ૃ","ૄ","ૅ","ે","ૈ","્","ૢ",
    "ૣ","ૺ","ૻ","ૼ","૽","૾","૿","ஂ","ீ","்","ಁ","಼","ಿ",
    "ೆ","ೌ","್","ೢ","ೣ","ඁ","්","ි","ී","ු","ූ","ັ","ິ",
    "ີ","ຶ","ື","ຸ","ູ","຺","ົ","ຼ","ໆ","່","້","໊","໋",
    "໌","ໍ","ྀ","ཱྀ","ྂ","ྃ","྄","྆","྇","ྍ","ྎ","ྏ","ྐ",
    "ྑ","ྒ","ྒྷ","ྔ","ྕ","ྖ","ྗ","ྙ","ྚ","ྛ","ྜ","ྜྷ","ྞ",
    "ྟ","ྠ","ྡ","ྡྷ","ྣ","ྤ","ྥ","ྦ","ྦྷ","ྨ","ྩ","ྪ","ྫ",
    "ྫྷ","ྭ","ྮ","ྯ","ྰ","ྱ","ྲ","ླ","ྴ","ྵ","ྶ","ྷ","ྸ",
    "ྐྵ","ྺ","ྻ","ྼ","࿆","ႂ","ႅ","ႆ","ႍ","ႝ","ჼ","឴","឵",
    "ិ","ី","ឹ","ឺ","ុ","ូ","ួ","ំ","៉","៊","់","៌","៍",
    "៎","៏","័","៑","្","៓","ៗ","៝","ᢅ","ᢆ","ᢩ","ᪧ","᪰",
    "᪱","᪲","᪳","᪴","᪵","᪶","᪷","᪸","᪹","᪺","᪻","᪼","᪽",
    "᪾","ᪿ","ᫀ","᫁","᫂","᫃","᫄","᫅","᫆","᫇","᫈","᫉","᫊",
    "᫋","ᫌ","ᫍ","ᫎ","ᮀ","ᮁ","ᮢ","ᮣ","ᮤ","ᮥ","ᮨ","ᮩ","᮫",
    "ᮬ","ᮭ","᯦","ᯨ","ᯩ","ᯭ","ᯯ","ᯰ","ᯱ","᳐","᳑","᳒","᳔",
    "᳕","᳖","᳗","᳘","᳙","᳚","᳛","᳜","᳝","᳞","᳟","᳠","᳢",
    "᳣","᳤","᳥","᳦","᳧","᳨","᳭","᳴","᳸","᳹","ᶛ","ᶜ","ᶝ",
    "ᶞ","ᶟ","ᶠ","ᶡ","ᶢ","ᶣ","ᶤ","ᶥ","ᶦ","ᶧ","ᶨ","ᶩ","ᶪ",
    "ᶫ","ᶬ","ᶭ","ᶮ","ᶯ","ᶰ","ᶱ","ᶲ","ᶳ","ᶴ","ᶵ","ᶶ","ᶷ",
    "ᶸ","ᶹ","ᶺ","ᶻ","ᶼ","ᶽ","ᶾ","ᶿ","᷀","᷁","᷂","᷃","᷄",
    "᷅","᷆","᷇","᷈","᷉","᷊","᷋","᷌","᷍","᷎","᷏","᷐","᷑",
    "᷒","ᷓ","ᷔ","ᷕ","ᷖ","ᷗ","ᷘ","ᷙ","ᷚ","ᷛ","ᷜ","ᷝ","ᷞ",
    "ᷟ","ᷠ","ᷡ","ᷢ","ᷣ","ᷤ","ᷥ","ᷦ","ᷧ","ᷨ","ᷩ","ᷪ","ᷫ",
    "ᷬ","ᷭ","ᷮ","ᷯ","ᷰ","ᷱ","ᷲ","ᷳ","ᷴ","᷵","᷶","᷷","᷸",
    "᷹","᷺","᷻","᷼","᷽","᷾","᷿","᾽","᾿","῀","῁","῍","῎",
    "῏","῝","῞","῟","῭","΅","`","´","῾","ₐ","ₑ","ₒ","ₓ",
    "ₔ","ₕ","ₖ","ₗ","ₘ","ₙ","ₚ","ₛ","ₜ","⃐","⃑","⃒","⃓",
    "⃔","⃕","⃖","⃗","⃘","⃙","⃚","⃛","⃜","⃝","⃞","⃟","⃠",
    "⃡","⃢","⃣","⃤","⃥","⃦","⃧","⃨","⃩","⃪","⃫","⃬","⃭",
    "⃮","⃯","⃰","⳯","⳰","⳱","ⷠ","ⷡ","ⷢ","ⷣ","ⷤ","ⷥ","ⷦ",
    "ⷧ","ⷨ","ⷩ","ⷪ","ⷫ","ⷬ","ⷭ","ⷮ","ⷯ","ⷰ","ⷱ","ⷲ","ⷳ",
    "ⷴ","ⷵ","ⷶ","ⷷ","ⷸ","ⷹ","ⷺ","ⷻ","ⷼ","ⷽ","ⷾ","ⷿ","゙",
    "゚","゛","゜","ゝ","ゞ","ー","ヽ","ヾ","ꓸ","ꓹ","ꓺ","ꓻ","ꓼ",
    "ꓽ","ꚜ","ꚝ","ꚞ","ꚟ","꛰","꛱","ꞈ","꞉","꞊","ꟲ","ꟳ","ꟴ",
    "ꟸ","ꟹ","꣄","ꣅ","꣠","꣡","꣢","꣣","꣤","꣥","꣦","꣧","꣨",
    "꣩","꣪","꣫","꣬","꣭","꣮","꣯","꣰","꣱","ꣿ","ꦀ","ꦁ","ꦂ",
    "꦳","ꦶ","ꦷ","ꦸ","ꦹ","ꦼ","ꦽ","ꧏ","ꧥ","ꧦ","ꪰ","ꪲ","ꪳ",
    "ꪴ","ꪷ","ꪸ","ꪾ","꪿","꫁","ꫝ","ꫬ","ꫭ","ꫳ","ꫴ","꫶","ꯥ",
    "ꯨ","꯭","﮲","﮳","﮴","﮵","﮶","﮷","﮸","﮹","﮺","﮻","﮼",
    "﮽","﮾","﮿","﯀","﯁","﯂","﻿","ﾞ","ﾟ","￣","￹","￺","￻",
    "ࢗ","໎","᫏","᫐","᫑","᫒","᫓","᫔","᫕","᫖","᫗","᫘","᫙",
    "᫚","᫛","᫜","᫝","᫠","᫡","᫢","᫣","᫤","᫥","᫦","᫧","᫨",
    "᫩","᫪","᫫","꟱"}
Cased ==
  {"A","B","C","D","E","F","G","H","I","J","K","L","M",
    "N","O","P","Q","R","S","T","U","V","W","X","Y","Z",
    "a","b","c","d","e","f","g","h","i","j","k","l","m",
    "n","o","p","q","r","s","t","u","v","w","x","y","z",
    "ª","µ","º","À","Á","Â","Ã","Ä","Å","Æ","Ç","È","É",
    "Ê","Ë","Ì","Í","Î","Ï","Ð","Ñ","Ò","Ó","Ô","Õ","Ö",
    "Ø","Ù","Ú","Û","Ü","Ý","Þ","ß","à","á","â","ã","ä",
    "å","æ","ç","è","é","ê","ë","ì","í","î","ï","ð","ñ",
    "ò","ó","ô","õ","ö","ø","ù","ú","û","ü","ý","þ","ÿ",
    "ƀ","Ɓ","Ƃ","ƃ","Ƅ","ƅ","Ɔ","Ƈ","ƈ","Ɖ","Ɗ","Ƌ","ƌ",
    "ƍ","Ǝ","Ə","Ɛ","Ƒ","ƒ","Ɠ","Ɣ","ƕ","Ɩ","Ɨ","Ƙ","ƙ",
    "ƚ","ƛ","Ɯ","Ɲ","ƞ","Ɵ","Ơ","ơ","Ƣ","ƣ","Ƥ","ƥ","Ʀ",
    "Ƨ","ƨ","Ʃ","ƪ","ƫ","Ƭ","ƭ","Ʈ","Ư","ư","Ʊ","Ʋ","Ƴ",
    "ƴ","Ƶ","ƶ","Ʒ","Ƹ","ƹ","ƺ","Ƽ","ƽ","ƾ","ƿ","Ǆ","ǅ",
    "ǆ","Ǉ","ǈ","ǉ","Ǌ","ǋ","ǌ","Ǎ","ǎ","Ǐ","ǐ","Ǒ","ǒ",
    "Ǔ","ǔ","Ǖ","ǖ","Ǘ","ǘ","Ǚ","ǚ","Ǜ","ǜ","ǝ","Ǟ","ǟ",
    "Ǡ","ǡ","Ǣ","ǣ","Ǥ","ǥ","Ǧ","ǧ","Ǩ","ǩ","Ǫ","ǫ","Ǭ",
    "ǭ","Ǯ","ǯ","ǰ","Ǳ","ǲ","ǳ","Ǵ","ǵ","Ƕ","Ƿ","Ǹ","ǹ",
    "Ǻ","ǻ","Ǽ","ǽ","Ǿ","ǿ","ʀ","ʁ","ʂ","ʃ","ʄ","ʅ","ʆ",
    "ʇ","ʈ","ʉ","ʊ","ʋ","ʌ","ʍ","ʎ","ʏ","ʐ","ʑ","ʒ","ʓ",
    "ʖ","ʗ","ʘ","ʙ","ʚ","ʛ","ʜ","ʝ","ʞ","ʟ","ʠ","ʡ",
    "ʢ","ʣ","ʤ","ʥ","ʦ","ʧ","ʨ","ʩ","ʪ","ʫ","ʬ","ʭ","ʮ",
    "ʯ","Ά","Έ","Ή","Ί","Ό","Ύ","Ώ","ΐ","Α","Β","Γ","Δ",
    "Ε","Ζ","Η","Θ","Ι","Κ","Λ","Μ","Ν","Ξ","Ο","Π","Ρ",
    "Σ","Τ","Υ","Φ","Χ","Ψ","Ω","Ϊ","Ϋ","ά","έ","ή","ί",
    "ΰ","α","β","γ","δ","ε","ζ","η","θ","ι","κ","λ","μ",
    "ν","ξ","ο","π","ρ","ς","σ","τ","υ","φ","χ","ψ","ω",
    "ϊ","ϋ","ό","ύ","ώ","Ϗ","ϐ","ϑ","ϒ","ϓ","ϔ","ϕ","ϖ",
    "ϗ","Ϙ","ϙ","Ϛ","ϛ","Ϝ","ϝ","Ϟ","ϟ","Ϡ","ϡ","Ϣ","ϣ",
    "Ϥ","ϥ","Ϧ","ϧ","Ϩ","ϩ","Ϫ","ϫ","Ϭ","ϭ","Ϯ","ϯ","ϰ",
    "ϱ","ϲ","ϳ","ϴ","ϵ","Ϸ","ϸ","Ϲ","Ϻ","ϻ","ϼ","Ͻ","Ͼ",
    "Ͽ","Ҁ","ҁ","Ҋ","ҋ","Ҍ","ҍ","Ҏ","ҏ","Ґ","ґ","Ғ","ғ",
    "Ҕ","ҕ","Җ","җ","Ҙ","ҙ","Қ","қ","Ҝ","ҝ","Ҟ","ҟ","Ҡ",
    "ҡ","Ң","ң","Ҥ","ҥ","Ҧ","ҧ","Ҩ","ҩ","Ҫ","ҫ","Ҭ","ҭ",
    "Ү","ү","Ұ","ұ","Ҳ","ҳ","Ҵ","ҵ","Ҷ","ҷ","Ҹ","ҹ","Һ",
    "һ","Ҽ","ҽ","Ҿ","ҿ","Ӏ","Ӂ","ӂ","Ӄ","ӄ","Ӆ","ӆ","Ӈ",
    "ӈ","Ӊ","ӊ","Ӌ","ӌ","Ӎ","ӎ","ӏ","Ӑ","ӑ","Ӓ","ӓ","Ӕ",
    "ӕ","Ӗ","ӗ","Ә","ә","Ӛ","ӛ","Ӝ","ӝ","Ӟ","ӟ","Ӡ","ӡ",
    "Ӣ","ӣ","Ӥ","ӥ","Ӧ","ӧ","Ө","ө","Ӫ","ӫ","Ӭ","ӭ","Ӯ",
    "ӯ","Ӱ","ӱ","Ӳ","ӳ","Ӵ","ӵ","Ӷ","ӷ","Ӹ","ӹ","Ӻ","ӻ",
    "Ӽ","ӽ","Ӿ","ӿ","ր","ց","ւ","փ","ք","օ","ֆ","և","ֈ",
    "Ⴀ","Ⴁ","Ⴂ","Ⴃ","Ⴄ","Ⴅ","Ⴆ","Ⴇ","Ⴈ","Ⴉ","Ⴊ","Ⴋ","Ⴌ",
    "Ⴍ","Ⴎ","Ⴏ","Ⴐ","Ⴑ","Ⴒ","Ⴓ","Ⴔ","Ⴕ","Ⴖ","Ⴗ","Ⴘ","Ⴙ",
    "Ⴚ","Ⴛ","Ⴜ","Ⴝ","Ⴞ","Ⴟ","Ⴠ","Ⴡ","Ⴢ","Ⴣ","Ⴤ","Ⴥ","Ⴧ",
    "Ⴭ","ა","ბ","გ","დ","ე","ვ","ზ","თ","ი","კ","ლ","მ",
    "ნ","ო","პ","ჟ","რ","ს","ტ","უ","ფ","ქ","ღ","ყ","შ",
    "ჩ","ც","ძ","წ","ჭ","ხ","ჯ","ჰ","ჱ","ჲ","ჳ","ჴ","ჵ",
    "ჶ","ჷ","ჸ","ჹ","ჺ","ჽ","ჾ","ჿ","Ꭰ","Ꭱ","Ꭲ","Ꭳ","Ꭴ",
    "Ꭵ","Ꭶ","Ꭷ","Ꭸ","Ꭹ","Ꭺ","Ꭻ","Ꭼ","Ꭽ","Ꭾ","Ꭿ","Ꮀ","Ꮁ",
    "Ꮂ","Ꮃ","Ꮄ","Ꮅ","Ꮆ","Ꮇ","Ꮈ","Ꮉ","Ꮊ","Ꮋ","Ꮌ","Ꮍ","Ꮎ",
    "Ꮏ","Ꮐ","Ꮑ","Ꮒ","Ꮓ","Ꮔ","Ꮕ","Ꮖ","Ꮗ","Ꮘ","Ꮙ","Ꮚ","Ꮛ",
    "Ꮜ","Ꮝ","Ꮞ","Ꮟ","Ꮠ","Ꮡ","Ꮢ","Ꮣ","Ꮤ","Ꮥ","Ꮦ","Ꮧ","Ꮨ",
    "Ꮩ","Ꮪ","Ꮫ","Ꮬ","Ꮭ","Ꮮ","Ꮯ","Ꮰ","Ꮱ","Ꮲ","Ꮳ","Ꮴ","Ꮵ",
    "Ꮶ","Ꮷ","Ꮸ","Ꮹ","Ꮺ","Ꮻ","Ꮼ","Ꮽ","Ꮾ","Ꮿ","Ᏸ","Ᏹ","Ᏺ",
    "Ᏻ","Ᏼ","Ᏽ","ᏸ","ᏹ","ᏺ","ᏻ","ᏼ","ᏽ","ᲀ","ᲁ","ᲂ","ᲃ",
    "ᲄ","ᲅ","ᲆ","ᲇ","ᲈ","Ა","Ბ","Გ","Დ","Ე","Ვ","Ზ","Თ",
    "Ი","Კ","Ლ","Მ","Ნ","Ო","Პ","Ჟ","Რ","Ს","Ტ","Უ","Ფ",
    "Ქ","Ღ","Ყ","Შ","Ჩ","Ც","Ძ","Წ","Ჭ","Ხ","Ჯ","Ჰ","Ჱ",
    "Ჲ","Ჳ","Ჴ","Ჵ","Ჶ","Ჷ","Ჸ","Ჹ","Ჺ","Ჽ","Ჾ","Ჿ","ᶀ",
    "ᶁ","ᶂ","ᶃ","ᶄ","ᶅ","ᶆ","ᶇ","ᶈ","ᶉ","ᶊ","ᶋ","ᶌ","ᶍ",
    "ᶎ","ᶏ","ᶐ","ᶑ","ᶒ","ᶓ","ᶔ","ᶕ","ᶖ","ᶗ","ᶘ","ᶙ","ᶚ",
    "Ẁ","ẁ","Ẃ","ẃ","Ẅ","ẅ","Ẇ","ẇ","Ẉ","ẉ","Ẋ","ẋ","Ẍ",
    "ẍ","Ẏ","ẏ","Ẑ","ẑ","Ẓ","ẓ","Ẕ","ẕ","ẖ","ẗ","ẘ","ẙ",
    "ẚ","ẛ","ẜ","ẝ","ẞ","ẟ","Ạ","ạ","Ả","ả","Ấ","ấ","Ầ",
    "ầ","Ẩ","ẩ","Ẫ","ẫ","Ậ","ậ","Ắ","ắ","Ằ","ằ","Ẳ","ẳ",
    "Ẵ","ẵ","Ặ","ặ","Ẹ","ẹ","Ẻ","ẻ","Ẽ","ẽ","Ế","ế","Ề",
    "ề","Ể","ể","Ễ","ễ","Ệ","ệ","Ỉ","ỉ","Ị","ị","Ọ","ọ",
    "Ỏ","ỏ","Ố","ố","Ồ","ồ","Ổ","ổ","Ỗ","ỗ","Ộ","ộ","Ớ",
    "ớ","Ờ","ờ","Ở","ở","Ỡ","ỡ","Ợ","ợ","Ụ","ụ","Ủ","ủ",
    "Ứ","ứ","Ừ","ừ","Ử","ử","Ữ","ữ","Ự","ự","Ỳ","ỳ","Ỵ",
    "ỵ","Ỷ","ỷ","Ỹ","ỹ","Ỻ","ỻ","Ỽ","ỽ","Ỿ","ỿ","ᾀ","ᾁ",
    "ᾂ","ᾃ","ᾄ","ᾅ","ᾆ","ᾇ","ᾈ","ᾉ","ᾊ","ᾋ","ᾌ","ᾍ","ᾎ",
    "ᾏ","ᾐ","ᾑ","ᾒ","ᾓ","ᾔ","ᾕ","ᾖ","ᾗ","ᾘ","ᾙ","ᾚ","ᾛ",
    "ᾜ","ᾝ","ᾞ","ᾟ","ᾠ","ᾡ","ᾢ","ᾣ","ᾤ","ᾥ","ᾦ","ᾧ","ᾨ",
    "ᾩ","ᾪ","ᾫ","ᾬ","ᾭ","ᾮ","ᾯ","ᾰ","ᾱ","ᾲ","ᾳ","ᾴ","ᾶ",
    "ᾷ","Ᾰ","Ᾱ","Ὰ","Ά","ᾼ","ι","ῂ","ῃ","ῄ","ῆ","ῇ","Ὲ",
    "Έ","Ὴ","Ή","ῌ","ῐ","ῑ","ῒ","ΐ","ῖ","ῗ","Ῐ","Ῑ","Ὶ",
    "Ί","ῠ","ῡ","ῢ","ΰ","ῤ","ῥ","ῦ","ῧ","Ῠ","Ῡ","Ὺ","Ύ",
    "Ῥ","ῲ","ῳ","ῴ","ῶ","ῷ","Ὸ","Ό","Ὼ","Ώ","ῼ","Ↄ","ↄ",
    "Ⓐ","Ⓑ","Ⓒ","Ⓓ","Ⓔ","Ⓕ","Ⓖ","Ⓗ","Ⓘ","Ⓙ","Ⓚ","Ⓛ","Ⓜ",
    "Ⓝ","Ⓞ","Ⓟ","Ⓠ","Ⓡ","Ⓢ","Ⓣ","Ⓤ","Ⓥ","Ⓦ","Ⓧ","Ⓨ","Ⓩ",
    "ⓐ","ⓑ","ⓒ","ⓓ","ⓔ","ⓕ","ⓖ","ⓗ","ⓘ","ⓙ","ⓚ","ⓛ","ⓜ",
    "ⓝ","ⓞ","ⓟ","ⓠ","ⓡ","ⓢ","ⓣ","ⓤ","ⓥ","ⓦ","ⓧ","ⓨ","ⓩ",
    "Ⲁ","ⲁ","Ⲃ","ⲃ","Ⲅ","ⲅ","Ⲇ","ⲇ","Ⲉ","ⲉ","Ⲋ","ⲋ","Ⲍ",
    "ⲍ","Ⲏ","ⲏ","Ⲑ","ⲑ","Ⲓ","ⲓ","Ⲕ","ⲕ","Ⲗ","ⲗ","Ⲙ","ⲙ",
    "Ⲛ","ⲛ","Ⲝ","ⲝ","Ⲟ","ⲟ","Ⲡ","ⲡ","Ⲣ","ⲣ","Ⲥ","ⲥ","Ⲧ",
    "ⲧ","Ⲩ","ⲩ","Ⲫ","ⲫ","Ⲭ","ⲭ","Ⲯ","ⲯ","Ⲱ","ⲱ","Ⲳ","ⲳ",
    "Ⲵ","ⲵ","Ⲷ","ⲷ","Ⲹ","ⲹ","Ⲻ","ⲻ","Ⲽ","ⲽ","Ⲿ","ⲿ","Ⳁ",
    "ⳁ","Ⳃ","ⳃ","Ⳅ","ⳅ","Ⳇ","ⳇ","Ⳉ","ⳉ","Ⳋ","ⳋ","Ⳍ","ⳍ",
    "Ⳏ","ⳏ","Ⳑ","ⳑ","Ⳓ","ⳓ","Ⳕ","ⳕ","Ⳗ","ⳗ","Ⳙ","ⳙ","Ⳛ",
    "ⳛ","Ⳝ","ⳝ","Ⳟ","ⳟ","Ⳡ","ⳡ","Ⳣ","ⳣ","ⳤ","Ⳬ","ⳬ","Ⳮ",
    "ⳮ","Ⳳ","ⳳ","Ꚁ","ꚁ","Ꚃ","ꚃ","Ꚅ","ꚅ","Ꚇ","ꚇ","Ꚉ","ꚉ",
    "Ꚋ","ꚋ","Ꚍ","ꚍ","Ꚏ","ꚏ","Ꚑ","ꚑ","Ꚓ","ꚓ","Ꚕ","ꚕ","Ꚗ",
    "ꚗ","Ꚙ","ꚙ","Ꚛ","ꚛ","Ꞁ","ꞁ","Ꞃ","ꞃ","Ꞅ","ꞅ","Ꞇ","ꞇ",
    "Ꞌ","ꞌ","Ɥ","ꞎ","Ꞑ","ꞑ","Ꞓ","ꞓ","ꞔ","ꞕ","Ꞗ","ꞗ","Ꞙ",
    "ꞙ","Ꞛ","ꞛ","Ꞝ","ꞝ","Ꞟ","ꞟ","Ꞡ","ꞡ","Ꞣ","ꞣ","Ꞥ","ꞥ",
    "Ꞧ","ꞧ","Ꞩ","ꞩ","Ɦ","Ɜ","Ɡ","Ɬ","Ɪ","ꞯ","Ʞ","Ʇ","Ʝ",
    "Ꭓ","Ꞵ","ꞵ","Ꞷ","ꞷ","Ꞹ","ꞹ","Ꞻ","ꞻ","Ꞽ","ꞽ","Ꞿ","ꞿ",
    "Ꟁ","ꟁ","Ꟃ","ꟃ","Ꞔ","Ʂ","Ᶎ","Ꟈ","ꟈ","Ꟊ","ꟊ","Ꟑ","ꟑ",
    "ꟓ","ꟕ","Ꟗ","ꟗ","Ꟙ","ꟙ","Ꟶ","ꟶ","ꟺ","ꮀ","ꮁ","ꮂ","ꮃ",
    "ꮄ","ꮅ","ꮆ","ꮇ","ꮈ","ꮉ","ꮊ","ꮋ","ꮌ","ꮍ","ꮎ","ꮏ","ꮐ",
    "ꮑ","ꮒ","ꮓ","ꮔ","ꮕ","ꮖ","ꮗ","ꮘ","ꮙ","ꮚ","ꮛ","ꮜ","ꮝ",
    "ꮞ","ꮟ","ꮠ","ꮡ","ꮢ","ꮣ","ꮤ","ꮥ","ꮦ","ꮧ","ꮨ","ꮩ","ꮪ",
    "ꮫ","ꮬ","ꮭ","ꮮ","ꮯ","ꮰ","ꮱ","ꮲ","ꮳ","ꮴ","ꮵ","ꮶ","ꮷ",
    "ꮸ","ꮹ","ꮺ","ꮻ","ꮼ","ꮽ","ꮾ","ꮿ",
    "Ᲊ","ᲊ","Ɤ","Ꟍ","ꟍ","꟎","꟏","꟒","꟔","Ꟛ","ꟛ","Ƛ"}

\* Final_Sigma: the capital sigma at i stands behind a cased letter and not
\* before one, Case_Ignorable characters on either side not counted.
FinalSigma(text, i) ==
  LET before == {j \in 1..(i - 1) : text[j] \notin CaseIgnorable}
      after == {j \in (i + 1)..Len(text) : text[j] \notin CaseIgnorable}
  IN  /\ before # {}
      /\ text[CHOOSE j \in before : \A k \in before : k <= j] \in Cased
      /\ after # {} =>
            text[CHOOSE j \in after : \A k \in after : j <= k] \notin Cased

\* String.prototype.toLowerCase
toLowerCase(text) ==
  [i \in DOMAIN text |->
     IF text[i] = "Σ" /\ FinalSigma(text, i) THEN "ς" ELSE ToLowerChar(text[i])]

\* The pieces of text[lo..hi] between single separator characters, where a
\* separator is any character /[^a-z0-9]/ matches; computed by halving, so
\* that long texts need no deep recursion.
RECURSIVE PiecesBetween(_, _, _)
PiecesBetween(text, lo, hi) ==
  IF lo > hi THEN <<"">>
  ELSE IF lo = hi THEN (IF IsTokenChar(text[lo]) THEN <<text[lo]>> ELSE <<"", "">>)
  ELSE LET mid == (lo + hi) \div 2
           L == PiecesBetween(text, lo, mid)
           R == PiecesBetween(text, mid + 1, hi)
       IN  SubSeq(L, 1, Len(L) - 1) \o <<L[Len(L)] \o R[1]>> \o Tail(R)

\* text.split(/[^a-z0-9]+/): the pieces between maximal separator runs. A run
\* of separators yields no empty piece inside it; the empty pieces at the two
\* ends of the text stay.
split(text) ==
  LET P == PiecesBetween(text, 1, Len(text))
      keep == {i \in DOMAIN P : i = 1 \/ i = Len(P) \/ P[i] # ""}
      Nth(k) == CHOOSE i \in keep : Cardinality({j \in keep : j <= i}) = k
  IN  [k \in 1..Cardinality(keep) |-> P[Nth(k)]]

\* pieces.filter(Boolean)
filterBoolean(pieces) == SelectSeq(pieces, LAMBDA p : p # "")

\* A tokenizer that does not lower the case of the text.
tokenizeMutNoLower(text) == filterBoolean(split(text))

tokenize(text) == filterBoolean(split(toLowerCase(text)))

positiveWords ==
  {"accessible", "accurate", "amazing", "awesome", "beneficial", "best",
   "breakthrough", "clean", "comprehensive", "convenient", "effective",
   "efficient", "empowering", "excellent", "fast", "flexible", "great",
   "helpful", "impressive", "innovative", "intuitive", "love", "productive",
   "progress", "reliable", "recommend", "robust", "solid", "streamlined",
   "success", "supportive", "transformative", "useful", "valuable",
   "well-designed"}

negativeWords ==
  {"annoying", "broken", "bug", "buggy", "confusing", "crash", "difficult",
   "disappointed", "expensive", "fail", "frustrating", "hard", "hate",
   "inaccurate", "issue", "lag", "laggy", "lacking", "limited", "negative",
   "outdated", "overpriced", "poor", "problem", "slow", "terrible",
   "unreliable", "unsatisfied", "unusable", "worse"}

\* The two Sets as the module creates them.
Lexicon == [positiveWords |-> positiveWords, negativeWords |-> negativeWords]

(***************************************************************************)
(* Numbers.  The quotients the code computes are kept as exact fractions   *)
(* in lowest terms with a positive denominator.                            *)
(***************************************************************************)
Abs(n) == IF n < 0 THEN -n ELSE n

RECURSIVE GCD(_, _)
GCD(a, b) == IF b = 0 THEN a ELSE GCD(b, a % b)

Frac(n, d) ==
  LET g == GCD(Abs(n), d)
  IN  [num |-> n \div g, den |-> d \div g]

FracGt(a, b) == a.num * b.den > b.num * a.den
FracLt(a, b) == a.num * b.den < b.num * a.den

Zero == Frac(0, 1)
\* The literals 0.02 and -0.02.
PositiveThreshold == Frac(1, 50)
NegativeThreshold == Frac(-1, 50)

(***************************************************************************)
(* Doubles.  The sums and averages of summariseSentiment are IEEE 754      *)
(* doubles: each addition and each division rounds to 53 bits, to nearest, *)
(* ties to even.  A double is [neg, mant, exp] with the value              *)
(* mant * 2^exp, where mant is a natural number of exactly 53 bits (or 0), *)
(* written as its limbs to the base 2^15, lowest limb first.  The sums and  *)
(* averages never leave the exponent range of a double; Number, which can, *)
(* rounds into the range itself (section normalizeNumber).  The operators  *)
(* on limbs work by halving, so that their depth is the logarithm of the   *)
(* length.                                                                 *)
(***************************************************************************)
LimbBits == 15
LimbBase == 2 ^ LimbBits
MantissaBits == 53

Zeros(n) == [i \in 1..n |-> 0]

\* The greatest element of a non-empty set of integers.
Greatest(S) == CHOOSE m \in S : \A k \in S : k <= m

\* Limbs without leading zero limbs.
BigNorm(a) ==
  LET nz == {i \in DOMAIN a : a[i] # 0}
  IN  IF nz = {} THEN <<>> ELSE SubSeq(a, 1, Greatest(nz))

BigFromInt(n) == BigNorm(<<n % LimbBase, (n \div LimbBase) % LimbBase, n \div (LimbBase * LimbBase)>>)

LimbAt(a, i) == IF i <= Len(a) THEN a[i] ELSE 0

\* The limbs of a lower and of a higher range, and the carry out of the
\* higher.
Glue(low, high) == [limbs |-> low.limbs \o high.limbs, carry |-> high.carry]

\* The limbs with the last carry as one more limb.
Flush(r) == BigNorm(Append(r.limbs, r.carry))

\* One limb of a sum v < 2^31 and the carry above it.
Split(v) == [limbs |-> <<v % LimbBase>>, carry |-> v \div LimbBase]

\* a[lo..hi] * m + carry: the limbs lo..hi of the product, and the carry.
RECURSIVE MulRange(_, _, _, _, _)
MulUpper(a, m, mid, hi, low) ==
  Glue(low, MulRange(a, m, mid + 1, hi, low.carry))
MulRange(a, m, lo, hi, carry) ==
  IF lo > hi THEN [limbs |-> <<>>, carry |-> carry]
  ELSE IF lo = hi THEN Split(a[lo] * m + carry)
  ELSE MulUpper(a, m, (lo + hi) \div 2, hi,
                MulRange(a, m, lo, (lo + hi) \div 2, carry))

\* a * m for 0 < m <= 2^15.
BigMulSmall(a, m) == Flush(MulRange(a, m, 1, Len(a), 0))

\* a * 2^s.
BigShl(a, s) ==
  IF a = <<>> THEN <<>>
  ELSE Zeros(s \div LimbBits) \o BigMulSmall(a, 2^(s % LimbBits))

\* The long division of a[lo..hi] by d, from the highest limb down, rem
\* being the remainder that comes from the limbs above: the limbs hi..lo of
\* the quotient, highest first, and the remainder that goes on.
RECURSIVE DivRange(_, _, _, _, _)
DivGlue(high, low) == [quot |-> high.quot \o low.quot, rem |-> low.rem]
DivLower(a, d, lo, mid, high) ==
  DivGlue(high, DivRange(a, d, lo, mid, high.rem))
DivRange(a, d, lo, hi, rem) ==
  IF lo > hi THEN [quot |-> <<>>, rem |-> rem]
  ELSE IF lo = hi THEN [quot |-> <<(rem * LimbBase + a[lo]) \div d>>,
                        rem |-> (rem * LimbBase + a[lo]) % d]
  ELSE DivLower(a, d, lo, (lo + hi) \div 2,
                DivRange(a, d, (lo + hi) \div 2 + 1, hi, rem))

Reverse(s) == [i \in 1..Len(s) |-> s[Len(s) + 1 - i]]

LowestFirst(r) == [quot |-> BigNorm(Reverse(r.quot)), rem |-> r.rem]

\* The quotient and the remainder of a by d, for 0 < d <= 2^15.
BigDivSmall(a, d) == LowestFirst(DivRange(a, d, 1, Len(a), 0))

\* floor(a / 2^s), and whether a bit was shifted out.
BigShr(a, s) ==
  LET q == IF s \div LimbBits < Len(a) THEN s \div LimbBits ELSE Len(a)
      dv == BigDivSmall(SubSeq(a, q + 1, Len(a)), 2^(s % LimbBits))
  IN  [quot |-> dv.quot,
       sticky |-> dv.rem # 0 \/ \E i \in 1..q : a[i] # 0]

\* The limbs lo..hi of a + b + carry, and the carry.
RECURSIVE AddRange(_, _, _, _, _)
AddUpper(a, b, mid, hi, low) ==
  Glue(low, AddRange(a, b, mid + 1, hi, low.carry))
AddRange(a, b, lo, hi, carry) ==
  IF lo > hi THEN [limbs |-> <<>>, carry |-> carry]
  ELSE IF lo = hi THEN Split(LimbAt(a, lo) + LimbAt(b, lo) + carry)
  ELSE AddUpper(a, b, (lo + hi) \div 2, hi,
                AddRange(a, b, lo, (lo + hi) \div 2, carry))

BigAdd(a, b) ==
  Flush(AddRange(a, b, 1, IF Len(a) < Len(b) THEN Len(b) ELSE Len(a), 0))

\* One limb of a difference v > -2^15 and the borrow above it.
Borrowed(v) ==
  IF v < 0 THEN [limbs |-> <<v + LimbBase>>, carry |-> 1]
  ELSE [limbs |-> <<v>>, carry |-> 0]

\* The limbs lo..hi of a - b - borrow, and the borrow.
RECURSIVE SubRange(_, _, _, _, _)
SubUpper(a, b, mid, hi, low) ==
  Glue(low, SubRange(a, b, mid + 1, hi, low.carry))
SubRange(a, b, lo, hi, borrow) ==
  IF lo > hi THEN [limbs |-> <<>>, carry |-> borrow]
  ELSE IF lo = hi THEN Borrowed(a[lo] - LimbAt(b, lo) - borrow)
  ELSE SubUpper(a, b, (lo + hi) \div 2, hi,
                SubRange(a, b, lo, (lo + hi) \div 2, borrow))

\* a - b for a >= b.
BigSub(a, b) == BigNorm(SubRange(a, b, 1, Len(a), 0).limbs)

\* -1, 0 or 1 as a is less than, equal to or greater than b.
BigCmp(a, b) ==
  IF Len(a) # Len(b) THEN (IF Len(a) < Len(b) THEN -1 ELSE 1)
  ELSE LET diff == {i \in DOMAIN a : a[i] # b[i]}
       IN  IF diff = {} THEN 0
           ELSE IF a[Greatest(diff)] < b[Greatest(diff)] THEN -1 ELSE 1

\* The number of bits of a limb and of a number.
LimbLen(n) == CHOOSE k \in 0..LimbBits : 2^k > n /\ (k = 0 \/ 2^(k - 1) <= n)
BitLen(a) == IF a = <<>> THEN 0 ELSE LimbBits * (Len(a) - 1) + LimbLen(a[Len(a)])

DZero == [neg |-> FALSE, mant |-> <<>>, exp |-> 0]
IsDZero(x) == x.mant = <<>>

\* A rounded mantissa m * 2^e: when the rounding carried into a 54th bit,
\* the mantissa is halved.
Carried(neg, m, e) ==
  IF BitLen(m) > MantissaBits
    THEN [neg |-> neg, mant |-> BigShr(m, 1).quot, exp |-> e + 1]
    ELSE [neg |-> neg, mant |-> m, exp |-> e]

\* Round to nearest, ties to even: the 53 bits q go up by one when the bit
\* below them is set and either a lower bit is set or q is odd.
RoundHalfEven(neg, q, roundBit, below, e) ==
  Carried(neg,
          IF roundBit /\ (below \/ q[1] % 2 = 1) THEN BigAdd(q, <<1>>) ELSE q,
          e)

\* sh holds 54 bits, the mantissa and the bit below it.
RoundShifted(neg, sh, sticky, e) ==
  RoundHalfEven(neg, BigShr(sh.quot, 1).quot, sh.quot[1] % 2 = 1,
                sh.sticky \/ sticky, e)

\* RoundToDouble for a number n of len bits.
RoundBits(neg, n, e, sticky, len) ==
  IF len <= MantissaBits
    THEN [neg |-> neg, mant |-> BigShl(n, MantissaBits - len),
          exp |-> e - (MantissaBits - len)]
    ELSE RoundShifted(neg, BigShr(n, len - MantissaBits - 1), sticky,
                      e + (len - MantissaBits))

\* The double nearest to n * 2^e (plus a fraction of the last bit of n if
\* sticky), ties to even; n # 0, and n carries at least 55 bits when sticky.
RoundToDouble(neg, n, e, sticky) == RoundBits(neg, n, e, sticky, BitLen(n))

\* The double nearest to the quotient dv of a division, scaled by 2^e.
RoundQuotient(neg, dv, e) == RoundToDouble(neg, dv.quot, e, dv.rem # 0)

\* The double n / d of two integers, 0 < d < 2^15 and |n| < 2^30.
DoubleOfRatio(n, d) ==
  IF n = 0 THEN DZero
  ELSE RoundQuotient(n < 0,
                     BigDivSmall(BigShl(BigFromInt(Abs(n)), 5 * LimbBits), d),
                     -(5 * LimbBits))

\* The double x / k for an integer 0 < k < 2^15.
DoubleDiv(x, k) ==
  IF IsDZero(x) THEN DZero
  ELSE RoundQuotient(x.neg, BigDivSmall(BigShl(x.mant, 2 * LimbBits), k),
                     x.exp - 2 * LimbBits)

\* x + y for mantissas a and b brought to the exponent e, c comparing them:
\* the sum of the magnitudes when the signs agree, else their difference
\* with the sign of the greater.
AddSigned(x, y, a, b, e, c) ==
  IF x.neg # y.neg /\ c = 0 THEN DZero
  ELSE RoundToDouble(IF x.neg = y.neg \/ c > 0 THEN x.neg ELSE y.neg,
                     IF x.neg = y.neg THEN BigAdd(a, b)
                     ELSE IF c > 0 THEN BigSub(a, b) ELSE BigSub(b, a),
                     e, FALSE)

AddAligned(x, y, a, b, e) == AddSigned(x, y, a, b, e, BigCmp(a, b))

AddAt(x, y, e) ==
  AddAligned(x, y, BigShl(x.mant, x.exp - e), BigShl(y.mant, y.exp - e), e)

\* The double x + y.
DoubleAdd(x, y) ==
  IF IsDZero(x) THEN y
  ELSE IF IsDZero(y) THEN x
  ELSE AddAt(x, y, IF x.exp < y.exp THEN x.exp ELSE y.exp)

DoubleNeg(x) == IF IsDZero(x) THEN x ELSE [x EXCEPT !.neg = ~x.neg]

IsPositive(x) == ~IsDZero(x) /\ ~x.neg

\* x > y and x < y.
DoubleGt(x, y) == IsPositive(DoubleAdd(x, DoubleNeg(y)))
DoubleLt(x, y) == DoubleGt(y, x)

\* The literals 0.02 and -0.02 as doubles.
PositiveThresholdDouble == DoubleOfRatio(1, 50)
NegativeThresholdDouble == DoubleOfRatio(-1, 50)

(***************************************************************************)
(* analyzeSentiment                                                        *)
(***************************************************************************)
\* The branch the loop body takes for one token: the positive set is tried
\* first, the negative set only otherwise.
Polarity(token) ==
  IF token \in lexicon.positiveWords THEN "positive"
  ELSE IF token \in lexicon.negativeWords THEN "negative"
  ELSE "none"

RECURSIVE ScanDelete(_, _)
\* The loop with Set.delete in the place of Set.has: a word that has matched
\* is in its Set no more.
ScanDelete(tokens, acc) ==
  IF tokens = <<>> THEN acc
  ELSE LET token == Head(tokens)
           polarity == IF token \in acc.lexicon.positiveWords THEN "positive"
                       ELSE IF token \in acc.lexicon.negativeWords THEN "negative"
                       ELSE "none"
       IN  ScanDelete(Tail(tokens),
             IF polarity = "positive"
               THEN [acc EXCEPT !.positive = @ + 1,
                                !.highlights = Append(@, [token |-> token, polarity |-> polarity]),
                                !.lexicon.positiveWords = @ \ {token}]
             ELSE IF polarity = "negative"
               THEN [acc EXCEPT !.negative = @ + 1,
                                !.highlights = Append(@, [token |-> token, polarity |-> polarity]),
                                !.lexicon.negativeWords = @ \ {token}]
             ELSE acc)

ScanTokensMutDelete(tokens) ==
  ScanDelete(tokens, [positive |-> 0, negative |-> 0, highlights |-> <<>>,
                      lexicon |-> lexicon])

\* A loop that adds 2 for every positive token.
ScanTokensMutTwice(tokens) ==
  LET tagged == [i \in DOMAIN tokens |-> [token |-> tokens[i], polarity |-> Polarity(tokens[i])]]
  IN  [positive |-> 2 * Cardinality({i \in DOMAIN tokens : Polarity(tokens[i]) = "positive"}),
       negative |-> Cardinality({i \in DOMAIN tokens : Polarity(tokens[i]) = "negative"}),
       highlights |-> SelectSeq(tagged, LAMBDA h : h.polarity # "none"),
       lexicon |-> lexicon]

\* The 'for (const token of tokens)' loop: the two counters and the highlights
\* pushed, in token order, and the two Sets as the loop leaves them: has()
\* reads them only.
ScanTokens(tokens) ==
  LET tagged == [i \in DOMAIN tokens |-> [token |-> tokens[i], polarity |-> Polarity(tokens[i])]]
  IN  [positive |-> Cardinality({i \in DOMAIN tokens : Polarity(tokens[i]) = "positive"}),
       negative |-> Cardinality({i \in DOMAIN tokens : Polarity(tokens[i]) = "negative"}),
       highlights |-> SelectSeq(tagged, LAMBDA h : h.polarity # "none"),
       lexicon |-> lexicon]

\* The label chosen from normalizedScore.
LabelMutGe(normalizedScore) ==
  IF ~FracLt(normalizedScore, PositiveThreshold) THEN "positive"
  ELSE IF ~FracGt(normalizedScore, NegativeThreshold) THEN "negative"
  ELSE "neutral"

Label(normalizedScore) ==
  IF FracGt(normalizedScore, PositiveThreshold) THEN "positive"
  ELSE IF FracLt(normalizedScore, NegativeThreshold) THEN "negative"
  ELSE "neutral"

analyzeSentiment(text) ==
  LET tokens == tokenize(text)
      acc == ScanTokens(tokens)
      total == IF Len(tokens) = 0 THEN 1 ELSE Len(tokens)
      score == acc.positive - acc.negative
      normalizedScore == Frac(score, total)
  IN  [score |-> score,
       normalizedScore |-> normalizedScore,
       label |-> Label(normalizedScore),
       positive |-> acc.positive,
       negative |-> acc.negative,
       total |-> total,
       highlights |-> acc.highlights]

(***************************************************************************)
(* normalizeNumber                                                         *)
(***************************************************************************)
\* What Number gives: NaN, an infinity, or a double in Finite.
NaN == [kind |-> "nan"]
Finite(x) == [kind |-> "finite", value |-> x]
Infinite(neg) == [kind |-> "infinite", neg |-> neg]

\* 0 and -0.
SignedZero(neg) == [neg |-> neg, mant |-> <<>>, exp |-> 0]

\* The digits of the bases 2, 8, 10 and 16, in lower case.
HexDigits ==
  <<"0","1","2","3","4","5","6","7","8","9","a","b","c","d","e","f">>

\* The value of one digit.
DigitOf(c) == CHOOSE v \in 0..15 : HexDigits[v + 1] = ToLowerChar(c)

\* s is a non-empty string of digits of the base.
IsDigitsOf(s, base) ==
  /\ s # <<>>
  /\ \A i \in DOMAIN s : \E v \in 1..base : HexDigits[v] = ToLowerChar(s[i])

\* s without its leading zeros.
StripLeadingZeros(s) ==
  LET nz == {i \in DOMAIN s : s[i] # "0"}
  IN  IF nz = {} THEN <<>>
      ELSE SubSeq(s, CHOOSE i \in nz : \A k \in nz : i <= k, Len(s))

\* a * base^k for a base up to 16: three powers at a time, the first half
\* of the powers before the second.
RECURSIVE MulPow(_, _, _)
MulPowOf(a, base, k) == IF a = <<>> THEN a ELSE MulPow(a, base, k)
MulPow(a, base, k) ==
  IF k <= 3 THEN BigMulSmall(a, base ^ k)
  ELSE MulPowOf(MulPow(a, base, k \div 2), base, k - k \div 2)

\* The natural number the digits ds[lo..hi] spell to a base, exactly.
RECURSIVE DigitsBig(_, _, _, _)
DigitsBig(ds, lo, hi, base) ==
  IF lo > hi THEN <<>>
  ELSE IF lo = hi THEN BigFromInt(DigitOf(ds[lo]))
  ELSE BigAdd(MulPow(DigitsBig(ds, lo, (lo + hi) \div 2, base), base,
                     hi - (lo + hi) \div 2),
              DigitsBig(ds, (lo + hi) \div 2 + 1, hi, base))

\* The range of a double: the least exponent of a mantissa bit, that of the
\* subnormal numbers, and the power of two no finite double reaches.
MinExponent == -1074
MaxBinaryOrder == 1024

\* A rounded value beyond the largest double is an infinity.
Overflowed(x) ==
  IF x.exp + MantissaBits > MaxBinaryOrder THEN Infinite(x.neg) ELSE Finite(x)

\* A multiple m of 2^MinExponent, as a double.
SubnormalOf(neg, m) ==
  IF m = <<>> THEN SignedZero(neg)
  ELSE RoundBits(neg, m, MinExponent, FALSE, BitLen(m))

\* Round to nearest, ties to even, at the bit 2^MinExponent: q are the bits
\* from there on, roundBit the bit below, below whether a lower bit is set.
SubnormalHalfEven(neg, q, roundBit, below) ==
  SubnormalOf(neg, IF roundBit /\ (below \/ LimbAt(q, 1) % 2 = 1)
                     THEN BigAdd(q, <<1>>) ELSE q)

SubnormalShifted(neg, sh, sticky) ==
  SubnormalHalfEven(neg, BigShr(sh.quot, 1).quot, LimbAt(sh.quot, 1) % 2 = 1,
                    sh.sticky \/ sticky)

\* The double nearest to n * 2^e below the least normal number, e being
\* less than MinExponent: the value is rounded once, at the bit 2^MinExponent.
RoundSubnormal(neg, n, e, sticky) ==
  SubnormalShifted(neg, BigShr(n, MinExponent - e - 1), sticky)

\* What n * 2^e (plus a fraction of the last bit of n if sticky) is as a
\* double, n # 0 having len bits, at least 64 when e < 0.
RoundInRange(neg, n, e, sticky, len) ==
  IF len + e < MinExponent + MantissaBits
    THEN Finite(RoundSubnormal(neg, n, e, sticky))
    ELSE Overflowed(RoundBits(neg, n, e, sticky, len))

\* The natural number n as a value of Number.
WholeValue(neg, n) == RoundInRange(neg, n, 0, FALSE, BitLen(n))

\* x.quot divided by 10^k, x.sticky telling whether a remainder was dropped:
\* four powers at a time, the first half of the powers before the second.
RECURSIVE DivPow10(_, _)
DivStep(x, dv) == [quot |-> dv.quot, sticky |-> x.sticky \/ dv.rem # 0]
DivPow10Of(x, k) == IF x.quot = <<>> THEN x ELSE DivPow10(x, k)
DivPow10(x, k) ==
  IF k = 0 THEN x
  ELSE IF k <= 4 THEN DivStep(x, BigDivSmall(x.quot, 10 ^ k))
  ELSE DivPow10Of(DivPow10(x, k \div 2), k - k \div 2)

\* 10^k has at most this many bits: log2(10) < 3.322.
BitsOfPow10(k) == (k * 3322) \div 1000 + 1

\* The bits a quotient carries at least.
QuotientBits == 64

\* By how many bits a number of len bits is shifted up before the division
\* by 10^k, for the quotient to carry QuotientBits bits.
Spare(len, k) ==
  IF QuotientBits + BitsOfPow10(k) > len
    THEN QuotientBits + BitsOfPow10(k) - len
    ELSE 0

QuotientValue(neg, x, s) ==
  RoundInRange(neg, x.quot, -s, x.sticky, BitLen(x.quot))

\* n / 10^k, computed as floor(n * 2^s / 10^k) * 2^-s.
DividedValue(neg, n, k, s) ==
  QuotientValue(neg, DivPow10([quot |-> BigShl(n, s), sticky |-> FALSE], k), s)

\* n * 10^scale for a natural number n # 0.
ScaledValue(neg, n, scale) ==
  IF scale >= 0 THEN WholeValue(neg, MulPow(n, 10, scale))
  ELSE DividedValue(neg, n, -scale, Spare(BitLen(n), -scale))

\* A decimal literal of at least 10^309 is beyond every double, one below
\* 10^-324 is nearer to 0 than to the least double.
MaxDecimalOrder == 309
MinDecimalOrder == -323

\* The value neg * digits * 10^scale of a decimal literal: the double
\* nearest to it, every digit counted.
DecimalValue(neg, digits, scale) ==
  LET sig == StripLeadingZeros(digits)
      order == Len(sig) + scale
  IN  IF sig = <<>> THEN Finite(SignedZero(neg))
      ELSE IF order > MaxDecimalOrder THEN Infinite(neg)
      ELSE IF order < MinDecimalOrder THEN Finite(SignedZero(neg))
      ELSE ScaledValue(neg, DigitsBig(sig, 1, Len(sig), 10), scale)

\* The integer a short string of decimal digits spells.
RECURSIVE DigitsValue(_, _)
DigitsValue(ds, n) ==
  IF n = 0 THEN 0 ELSE 10 * DigitsValue(ds, n - 1) + DigitOf(ds[n])

\* The exponent an ExponentPart spells.  One of more than nine digits is
\* read as 999999999, which gives the same number for every literal of
\* fewer than 999999000 characters.
ExponentDigits == 9
ExponentValue(neg, digits) ==
  LET sig == StripLeadingZeros(digits)
      v == IF Len(sig) > ExponentDigits THEN 10 ^ ExponentDigits - 1
           ELSE DigitsValue(sig, Len(sig))
  IN  IF neg THEN -v ELSE v

\* StrUnsignedDecimalLiteral without Infinity: digits, an optional point
\* with digits on at least one side, an optional exponent part.
UnsignedDecimal(neg, body) ==
  LET es == {i \in DOMAIN body : body[i] \in {"e", "E"}}
      e == IF es = {} THEN Len(body) + 1 ELSE CHOOSE i \in es : \A k \in es : i <= k
      mantissa == SubSeq(body, 1, e - 1)
      expPart == SubSeq(body, e + 1, Len(body))
      expSigned == expPart # <<>> /\ expPart[1] \in {"+", "-"}
      expDigits == IF expSigned THEN Tail(expPart) ELSE expPart
      dots == {i \in DOMAIN mantissa : mantissa[i] = "."}
      dot == IF dots = {} THEN Len(mantissa) + 1 ELSE CHOOSE i \in dots : TRUE
      intPart == SubSeq(mantissa, 1, dot - 1)
      fracPart == SubSeq(mantissa, dot + 1, Len(mantissa))
      digits == intPart \o fracPart
      exponent == IF es = {} THEN 0
                  ELSE ExponentValue(expSigned /\ expPart[1] = "-", expDigits)
  IN  IF /\ Cardinality(dots) <= 1
         /\ IsDigitsOf(digits, 10)
         /\ es # {} => IsDigitsOf(expDigits, 10)
        THEN DecimalValue(neg, digits, exponent - Len(fracPart))
      ELSE NaN

\* The base of a NonDecimalIntegerLiteral prefix, or 0.
PrefixBase(t) ==
  IF Len(t) >= 2 /\ t[1] = "0"
    THEN CASE t[2] \in {"x", "X"} -> 16
           [] t[2] \in {"o", "O"} -> 8
           [] t[2] \in {"b", "B"} -> 2
           [] OTHER -> 0
  ELSE 0

\* The value of the digits behind a prefix.
PrefixedValue(digits, base) ==
  IF ~IsDigitsOf(digits, base) THEN NaN
  ELSE IF StripLeadingZeros(digits) = <<>> THEN Finite(SignedZero(FALSE))
  ELSE WholeValue(FALSE, DigitsBig(digits, 1, Len(digits), base))

\* Number(text), StringToNumber of the language: white space around the
\* literal is dropped; the empty text is 0; a literal is a signed decimal
\* literal, a signed Infinity, or an unsigned integer with the prefix 0x, 0o
\* or 0b; any other text is NaN.  The value is the double nearest to the
\* number the literal spells.
StringToNumber(text) ==
  LET ink == {i \in DOMAIN text : ~IsSpace(text[i])}
      t == IF ink = {} THEN <<>>
           ELSE SubSeq(text, CHOOSE i \in ink : \A k \in ink : i <= k,
                             CHOOSE i \in ink : \A k \in ink : k <= i)
      signed == t # <<>> /\ t[1] \in {"-", "+"}
      neg == signed /\ t[1] = "-"
      body == IF signed THEN Tail(t) ELSE t
  IN  IF t = <<>> THEN Finite(SignedZero(FALSE))
      ELSE IF PrefixBase(t) # 0
        THEN PrefixedValue(SubSeq(t, 3, Len(t)), PrefixBase(t))
      ELSE IF body = <<"I","n","f","i","n","i","t","y">> THEN Infinite(neg)
      ELSE UnsignedDecimal(neg, body)

\* Number(value).  A JSON number is the double num / den.
Number(value) ==
  CASE value.kind = "undefined" -> NaN
    [] value.kind = "null" -> Finite(SignedZero(FALSE))
    [] value.kind = "boolean" -> Finite(IF value.true THEN DoubleOfRatio(1, 1) ELSE SignedZero(FALSE))
    [] value.kind = "number" -> Finite(DoubleOfRatio(value.num, value.den))
    [] value.kind = "infinity" -> Infinite(value.neg)
    [] value.kind = "string" -> StringToNumber(value.text)

\* An integer as its sign and its magnitude in limbs.
Signed(neg, mag) == [neg |-> neg /\ mag # <<>>, mag |-> mag]
Integer(n) == Signed(n < 0, BigFromInt(Abs(n)))

\* a < b
IntLess(a, b) ==
  IF a.neg # b.neg THEN a.neg
  ELSE IF a.neg THEN BigCmp(a.mag, b.mag) > 0
  ELSE BigCmp(a.mag, b.mag) < 0

\* An integer of less than 2^31 in magnitude as a number of the model.
ToInt(a) ==
  (IF a.neg THEN -1 ELSE 1)
    * (LimbAt(a.mag, 1) + LimbBase * LimbAt(a.mag, 2)
         + LimbBase * LimbBase * LimbAt(a.mag, 3))

\* The magnitude sh.quot plus a fraction if sh.sticky, floored: a negative
\* number with a fraction goes down, away from zero.
FloorShifted(neg, sh) ==
  Signed(neg, IF neg /\ sh.sticky THEN BigAdd(sh.quot, <<1>>) ELSE sh.quot)

\* Math.floor(x) of a double.
Floor(x) ==
  IF IsDZero(x) THEN Signed(FALSE, <<>>)
  ELSE IF x.exp >= 0 THEN Signed(x.neg, BigShl(x.mant, x.exp))
  ELSE FloorShifted(x.neg, BigShr(x.mant, -x.exp))

\* A normalizeNumber that does not lower values above the maximum.
FlooredMutNoCap(intValue, min, max) ==
  IF IntLess(intValue, Integer(min)) THEN min ELSE ToInt(intValue)
FiniteOrMutNoCap(numericValue, fallback, min, max) ==
  IF numericValue.kind # "finite" THEN fallback
  ELSE FlooredMutNoCap(Floor(numericValue.value), min, max)
normalizeNumberMutNoCap(value, fallback, min, max) ==
  FiniteOrMutNoCap(Number(value), fallback, min, max)

\* The three returns on intValue.
Floored(intValue, min, max) ==
  IF IntLess(intValue, Integer(min)) THEN min
  ELSE IF IntLess(Integer(max), intValue) THEN max
  ELSE ToInt(intValue)

\* The return on a numericValue that is not finite, and the rest.
FiniteOr(numericValue, fallback, min, max) ==
  IF numericValue.kind # "finite" THEN fallback
  ELSE Floored(Floor(numericValue.value), min, max)

\* normalizeNumber(value, fallback, { min, max })
normalizeNumber(value, fallback, min, max) ==
  FiniteOr(Number(value), fallback, min, max)

\* a ?? b
Coalesce(a, b) == IF a.kind \in {"undefined", "null"} THEN b ELSE a

(***************************************************************************)
(* stripHtml and the page texts.                                           *)
(***************************************************************************)
\* Whether the (lower-case) pattern pat occurs in s at position i, ignoring
\* the case of s (the regular expressions carry the i flag).
MatchesAt(s, i, pat) ==
  /\ i + Len(pat) - 1 <= Len(s)
  /\ \A k \in 1..Len(pat) : ToLowerChar(s[i + k - 1]) = pat[k]

\* The least j >= from where pat occurs in s, or 0.
FirstMatch(s, from, pat) ==
  LET hits == {j \in from..Len(s) : MatchesAt(s, j, pat)}
  IN  IF hits = {} THEN 0 ELSE CHOOSE j \in hits : \A h \in hits : j <= h

\* The least j >= from where a block starts: open occurs at j and close
\* occurs behind it; or 0.
FirstBlock(s, from, open, close) ==
  LET starts == {j \in from..Len(s) :
                   /\ MatchesAt(s, j, open)
                   /\ FirstMatch(s, j + Len(open), close) # 0}
  IN  IF starts = {} THEN 0 ELSE CHOOSE j \in starts : \A h \in starts : j <= h

\* s.replace(/<open>[\s\S]*?<close>/gi, " ") from position i on: every
\* leftmost, shortest block that starts with open and ends with close becomes
\* one blank; what lies between the blocks is kept.
RECURSIVE ReplaceBlocks(_, _, _, _)
ReplaceFrom(s, i, j, open, close) ==
  IF j = 0 THEN SubSeq(s, i, Len(s))
  ELSE SubSeq(s, i, j - 1) \o <<" ">>
         \o ReplaceBlocks(s, FirstMatch(s, j + Len(open), close) + Len(close),
                          open, close)
ReplaceBlocks(s, i, open, close) ==
  IF i > Len(s) THEN <<>>
  ELSE ReplaceFrom(s, i, FirstBlock(s, i, open, close), open, close)

\* What s.replace(/\s+/g, " ") puts for the character at k: nothing for a
\* white space that follows a white space, a blank for any other white
\* space, the character itself otherwise.
CollapsedAt(s, k) ==
  IF IsSpace(s[k])
    THEN (IF k > 1 /\ IsSpace(s[k - 1]) THEN <<>> ELSE <<" ">>)
  ELSE <<s[k]>>

\* The same for s[lo..hi], by halving.
RECURSIVE CollapseRange(_, _, _)
CollapseRange(s, lo, hi) ==
  IF lo > hi THEN <<>>
  ELSE IF lo = hi THEN CollapsedAt(s, lo)
  ELSE CollapseRange(s, lo, (lo + hi) \div 2)
         \o CollapseRange(s, (lo + hi) \div 2 + 1, hi)

\* s.replace(/\s+/g, " "), from position i on.
CollapseSpaces(s, i) == CollapseRange(s, i, Len(s))

\* s.trim()
trim(s) ==
  LET solid == {i \in DOMAIN s : ~IsSpace(s[i])}
  IN  IF solid = {} THEN <<>>
      ELSE SubSeq(s, CHOOSE i \in solid : \A k \in solid : i <= k,
                     CHOOSE i \in solid : \A k \in solid : i >= k)

stripHtml(html) ==
  LET noScript == ReplaceBlocks(html, 1,
                    <<"<","s","c","r","i","p","t">>,
                    <<"<","/","s","c","r","i","p","t",">">>)
      noStyle == ReplaceBlocks(noScript, 1,
                    <<"<","s","t","y","l","e">>,
                    <<"<","/","s","t","y","l","e",">">>)
      noTags == ReplaceBlocks(noStyle, 1, <<"<">>, <<">">>)
  IN  trim(CollapseSpaces(noTags, 1))

\* s.slice(0, n)
slice(s, n) == SubSeq(s, 1, IF Len(s) < n THEN Len(s) ELSE n)

\* The length the page text is cut to before scoring, and the snippet's.
TEXT_LIMIT == 1500
SNIPPET_LIMIT == 320

(***************************************************************************)
(* summariseSentiment                                                      *)
(***************************************************************************)
\* The truthiness of entry.error: a missing error and the empty message are
\* both falsy.
HasError(entry) == "error" \in DOMAIN entry /\ entry.error # ""

\* entries.filter(entry => entry && !entry.error)
validEntriesOf(entries) == SelectSeq(entries, LAMBDA e : ~HasError(e))

\* validEntries.reduce(...): the totals after the first n valid entries.
\* acc.normalized is a double; each normalizedScore is the double of its
\* quotient.
RECURSIVE Totals(_, _)
Totals(validEntries, n) ==
  IF n = 0
    THEN [score |-> 0, normalized |-> DZero, positive |-> 0, neutral |-> 0, negative |-> 0]
  ELSE LET acc == Totals(validEntries, n - 1)
           s == validEntries[n].sentiment
       IN  [score |-> acc.score + s.score,
            normalized |-> DoubleAdd(acc.normalized,
                                     DoubleOfRatio(s.normalizedScore.num,
                                                   s.normalizedScore.den)),
            positive |-> acc.positive + (IF s.label = "positive" THEN 1 ELSE 0),
            neutral |-> acc.neutral + (IF s.label = "neutral" THEN 1 ELSE 0),
            negative |-> acc.negative + (IF s.label = "negative" THEN 1 ELSE 0)]

\* A rating that takes the thresholds themselves for positive and negative.
RatingMutGe(averageNormalizedScore) ==
  IF ~DoubleLt(averageNormalizedScore, PositiveThresholdDouble) THEN "positive"
  ELSE IF ~DoubleGt(averageNormalizedScore, NegativeThresholdDouble) THEN "negative"
  ELSE "neutral"

\* The rating chosen from averageNormalizedScore.
Rating(averageNormalizedScore) ==
  IF DoubleGt(averageNormalizedScore, PositiveThresholdDouble) THEN "positive"
  ELSE IF DoubleLt(averageNormalizedScore, NegativeThresholdDouble) THEN "negative"
  ELSE "neutral"

\* The divisor of the two averages.
AverageDivisorMutAll(entries, validEntries) == Len(entries)

AverageDivisor(entries, validEntries) == Len(validEntries)

\* summariseSentiment(entries): the summary, or [threw, name, message] when
\* the reducer reads the sentiment of a valid entry that has none.
\* averageScore, a quotient of two integers, is kept as the exact fraction;
\* averageNormalizedScore is the double the code computes.
summariseSentiment(entries) ==
  LET validEntries == validEntriesOf(entries)
  IN  IF Len(validEntries) = 0
        THEN [averageScore |-> Zero,
              averageNormalizedScore |-> DZero,
              distribution |-> [positive |-> 0, neutral |-> 0, negative |-> 0],
              rating |-> "unknown"]
      ELSE IF \E i \in DOMAIN validEntries : "sentiment" \notin DOMAIN validEntries[i]
        THEN [threw |-> TRUE, name |-> "TypeError",
              message |-> "Cannot read properties of undefined (reading 'score')"]
      ELSE LET totals == Totals(validEntries, Len(validEntries))
               n == AverageDivisor(entries, validEntries)
               averageScore == Frac(totals.score, n)
               averageNormalizedScore == DoubleDiv(totals.normalized, n)
           IN  [averageScore |-> averageScore,
                averageNormalizedScore |-> averageNormalizedScore,
                distribution |-> [positive |-> totals.positive,
                                  neutral |-> totals.neutral,
                                  negative |-> totals.negative],
                rating |-> Rating(averageNormalizedScore)]

(***************************************************************************)
(* Input texts of the scorer.                                              *)
(***************************************************************************)
\* n filler tokens, each followed by a blank.
Fill(n) == [i \in 1..(2 * n) |-> IF i % 2 = 1 THEN "o" ELSE " "]

Tails ==
  { <<>>,
    <<"G","r","e","a","t","!">>,
    <<"s","l","o","w">>,
    <<"f","a","s","t",","," ","b","u","g">>,
    <<"b","e","s","t","-","f","a","s","t">>,
    <<"-","l","a","g"," ","l","a","g","g","y",".">>,
    <<"9","f","a","s","t"," ","H","A","T","E">>,
    <<"Ɓ","f","a","s","t","Σ"," ","B","U","G">>,
    <<" ","w","e","l","l","-","d","e","s","i","g","n","e","d"," ">> }

Texts == {Fill(n) \o t : n \in 0..MaxFill, t \in Tails}

(***************************************************************************)
(* The search provider and the pages of the web, as the server sees them.  *)
(***************************************************************************)
\* The providers of the adapter in their order of preference; the second is
\* the free fallback the documentation names.
ProviderOrder == <<"tavily", "duckduckgo">>

\* How a provider answers a request.
ProviderStates == {"ok", "nokey", "status", "network"}

\* The items a provider's payload is made of.
Items ==
  { [title |-> "Review", url |-> "https://a.example/review"],
    [title |-> "undefined", url |-> "https://b.example/post"] }

RECURSIVE SeqsUpTo(_, _)
\* The sequences over S of length at most n.
SeqsUpTo(S, n) ==
  IF n = 0 THEN {<<>>}
  ELSE LET shorter == SeqsUpTo(S, n - 1)
       IN  shorter \cup {Append(q, x) : q \in {r \in shorter : Len(r) = n - 1}, x \in S}

Payloads == SeqsUpTo(Items, MaxPayload)

\* The bodies a fetched page may have.
Pages ==
  { <<"<","p",">","\r","\n","<","/","p",">">>,
    <<"<","b",">","G","r","e","a","t","<","/","b",">","\r","\n","f","a","s","t">>,
    <<"s","l","o","w"," ","<","i",">","b","u","t","<","/","i",">"," ","o","k">> }

\* What fetch(result.url) does: it rejects (network error, timeout), or it
\* resolves with a response that is not OK, or with an OK response and a body.
FetchOutcomes ==
  { [kind |-> "reject", message |-> "fetch failed"],
    [kind |-> "response", ok |-> FALSE, status |-> "404"] }
  \cup { [kind |-> "response", ok |-> TRUE, html |-> h] : h \in Pages }

\* The values a caller supplies for maxResults and maxArticles: absent from
\* the tool arguments (undefined), absent from the query string (null), a
\* query-string text, a JSON number.
Undefined == [kind |-> "undefined"]
Null == [kind |-> "null"]
Num(n, d) == [kind |-> "number", num |-> n, den |-> d]
Str(text) == [kind |-> "string", text |-> text]

RawArgs ==
  {Undefined, Null, Str(<<"a", "b", "c">>), Str(<<"2">>), Str(<<"1", "e", "1">>),
   Num(5, 2), Num(-1, 2), Num(99, 1)}

\* The two ways in: a tools/call message of the MCP endpoint, whose arguments
\* are JSON values or absent, and a GET request of the HTTP API, whose
\* parameters are texts or, when absent, null.
Routes == {"mcp", "api"}
ArgsOf(via) ==
  IF via = "mcp" THEN RawArgs
  ELSE {v \in RawArgs : v.kind \in {"null", "string"}}

ToolNames == {"cursor"}

svars == <<sText, sResult, arg, ret, lexicon>>
gvars == <<searchProvider, providers, toolsMap, requests, call, gpc, searchResults, gi, mentions, fetchLog, outcome>>
pvars == <<runs, catalog>>
nvars == <<posts, responses, polls>>
cvars == <<conns, timers, eventSourceRef, isResearching, rendered, status,
           progressLog, isConnectedToStream, mounted, budget>>
uvars == <<toolsSection, researchControls, tagSelector>>
vars == <<svars, gvars, pvars, nvars, cvars, uvars>>

(***************************************************************************)
(* tavilySearch, performSearch                                             *)
(***************************************************************************)
\* new URL(url).hostname, for the urls of the model's items.
extractHostname(url) ==
  CASE url = "https://a.example/review" -> "a.example"
    [] url = "https://b.example/post" -> "b.example"

\* One result as tavilySearch maps it: the title falls back to the url, and
\* an item without content, score, date or source gets "", null, null and the
\* host of its url.
mapItem(item) ==
  [title |-> IF item.title # "undefined" THEN item.title ELSE item.url,
   url |-> item.url,
   snippet |-> "",
   score |-> Null,
   publishedAt |-> Null,
   source |-> extractHostname(item.url)]

\* A mapResults that keeps every result of the provider.
mapResultsMutNoSlice(payload, maxResults) ==
  [i \in DOMAIN payload |-> mapItem(payload[i])]

\* results.slice(0, maxResults).map(item => ...): title falls back to the url.
mapResults(payload, maxResults) ==
  LET cut == slice(payload, maxResults)
  IN  [i \in DOMAIN cut |-> mapItem(cut[i])]

\* The message tavilySearch throws when the provider does not answer "ok".
tavilyError(state) ==
  CASE state = "nokey" ->
         "TAVILY_API_KEY environment variable must be provided to use Tavily search."
    [] state = "status" -> "Tavily search failed (401): Unauthorized"
    [] state = "network" -> "fetch failed"

\* The message of performSearch's default case.
unsupportedProvider ==
  "Unsupported search provider \"" \o searchProvider \o
  "\". Set RESEARCH_SEARCH_PROVIDER to a supported provider."

\* A performSearch that raises when the provider has no results.
performSearchMutEmptyThrows(payload, maxResults) ==
  IF searchProvider = "tavily"
    THEN IF providers["tavily"] = "ok" /\ payload # <<>>
           THEN [threw |-> FALSE, results |-> mapResults(payload, maxResults)]
           ELSE [threw |-> TRUE, message |-> "No results"]
    ELSE [threw |-> TRUE, message |-> unsupportedProvider]

\* performSearch: [threw, message] or [threw, results].  Only the configured
\* provider is asked; any other configured name is unsupported.
performSearch(payload, maxResults) ==
  IF searchProvider = "tavily"
    THEN IF providers["tavily"] = "ok"
           THEN [threw |-> FALSE, results |-> mapResults(payload, maxResults)]
           ELSE [threw |-> TRUE, message |-> tavilyError(providers["tavily"])]
    ELSE [threw |-> TRUE, message |-> unsupportedProvider]

(***************************************************************************)
(* gatherPublicSentiment                                                   *)
(***************************************************************************)
\* The try block of the loop body for one result: [threw, message] or
\* [threw, mention].
tryMention(result, fetched) ==
  IF fetched.kind = "reject" THEN [threw |-> TRUE, message |-> fetched.message]
  ELSE IF ~fetched.ok
    THEN [threw |-> TRUE,
          message |-> "Failed to fetch article (" \o fetched.status \o ")."]
  ELSE LET text == slice(stripHtml(fetched.html), TEXT_LIMIT)
       IN  IF text = <<>>
             THEN [threw |-> TRUE, message |-> "No readable content found in article."]
             ELSE [threw |-> FALSE,
                   mention |-> [title |-> result.title,
                                url |-> result.url,
                                snippet |-> slice(text, SNIPPET_LIMIT),
                                sentiment |-> analyzeSentiment(text),
                                source |-> result.source,
                                publishedAt |-> result.publishedAt]]

\* The catch block of the loop body: the mention pushed for a failed fetch.
errorMention(result, message) ==
  [title |-> result.title, url |-> result.url, error |-> message]

\* mentions.filter(mention => !mention.error).length
analyzedCountMutAll(ms) == Len(ms)

analyzedCount(ms) == Len(SelectSeq(ms, LAMBDA m : ~HasError(m)))

\* new Date().getFullYear() and new Date().toISOString(), on the day of the
\* call.
getFullYear == "2026"
toISOString == "2026-10-29T00:00:00.000Z"

\* The query gatherPublicSentiment searches with.
sentimentQuery(toolName) ==
  toolName \o " developer feedback reviews " \o getFullYear

\* The record gatherPublicSentiment returns.
sentimentRecord(toolName, results, ms) ==
  [toolName |-> toolName,
   query |-> sentimentQuery(toolName),
   generatedAt |-> toISOString,
   totalResults |-> Len(results),
   analyzedCount |-> analyzedCount(ms),
   summary |-> summariseSentiment(ms),
   mentions |-> ms]

(***************************************************************************)
(* The scorer on its own: one text, one call.                              *)
(***************************************************************************)
\* The components of the page that are not on stage.
TQuiet == toolsSection = [mounted |-> FALSE]
RQuiet == researchControls = [mounted |-> FALSE]
EQuiet == tagSelector = [mounted |-> FALSE]
UQuiet == TQuiet /\ RQuiet /\ EQuiet

\* No function is being called on its own.
FQuiet ==
  /\ arg = <<>>
  /\ ret = <<>>
  /\ lexicon = Lexicon

SInit ==
  /\ sText \in Texts
  /\ sResult = <<>>
  /\ FQuiet
  /\ UQuiet

SQuiet ==
  /\ sText = <<>>
  /\ sResult = <<>>
  /\ FQuiet
  /\ UQuiet

\* One call analyzeSentiment(sText).
Analyze ==
  /\ sResult = <<>>
  /\ sResult' = <<analyzeSentiment(sText)>>
  /\ lexicon' = ScanTokens(tokenize(sText)).lexicon
  /\ UNCHANGED <<uvars, sText, arg, ret, gvars, pvars, nvars, cvars>>

(***************************************************************************)
(* summariseSentiment on its own: one list of mentions, one call.          *)
(***************************************************************************)
\* The page texts of the mentions: scored 1/50, 1/25, 0, -1/50, -1/25, 1,
\* 1/10 and -3/50.
SummaryTexts ==
  { Fill(27) \o <<"f","a","s","t"," ","f","a","s","t"," ","f","a","s","t">>,
    Fill(47) \o <<"s","l","o","w"," ","s","l","o","w"," ","s","l","o","w">>,
    Fill(49) \o <<"G","r","e","a","t","!">>,
    Fill(24) \o <<"G","r","e","a","t","!">>,
    Fill(1),
    Fill(49) \o <<"s","l","o","w">>,
    Fill(24) \o <<"s","l","o","w">>,
    <<"G","r","e","a","t","!">> }

\* The mentions gatherPublicSentiment pushes: one per page, and one of a
\* failed fetch.
SummaryEntries ==
  LET result == mapItem([title |-> "Review", url |-> "https://a.example/review"])
  IN  { tryMention(result, [kind |-> "response", ok |-> TRUE, html |-> t]).mention :
          t \in SummaryTexts }
      \cup { errorMention(result, "fetch failed") }

MInit ==
  /\ lexicon = Lexicon
  /\ sText = <<>>
  /\ sResult = <<>>
  /\ arg \in SeqsUpTo(SummaryEntries, MaxEntries)
  /\ ret = <<>>
  /\ UQuiet

\* One call summariseSentiment(arg).
Summarise ==
  /\ ret = <<>>
  /\ ret' = <<summariseSentiment(arg)>>
  /\ UNCHANGED <<uvars, sText, sResult, arg, lexicon, gvars, pvars, nvars, cvars>>

(***************************************************************************)
(* The research server: searchAgenticTools and gatherPublicSentiment.      *)
(***************************************************************************)
SERVER_INFO == [name |-> "agentic-research-server", version |-> "1.0.0"]

\* The query of a caller that gives none.
DEFAULT_QUERY == "agentic coding systems and tools"

\* tools.set(name, { definition, handler }): the map keeps the order in
\* which its names were first set.
registerTool(tools, name, definition) ==
  IF \E i \in DOMAIN tools : tools[i].name = name
    THEN [i \in DOMAIN tools |->
            IF tools[i].name = name THEN [name |-> name, definition |-> definition]
            ELSE tools[i]]
    ELSE Append(tools, [name |-> name, definition |-> definition])

\* The definitions of the two tools.
agenticToolsDefinition ==
  [name |-> "websearch_agentic_tools",
   description |-> "Search the live web for agentic coding systems and developer tooling using a configurable MCP-compatible tool.",
   input_schema |->
     [type |-> "object",
      properties |->
        [query |->
           [type |-> "string",
            description |-> "Search query describing the agentic coding systems or tools to find.",
            default |-> DEFAULT_QUERY],
         maxResults |->
           [type |-> "integer",
            description |-> "Maximum number of search results to retrieve (1-10).",
            minimum |-> 1,
            maximum |-> MAX_RESULTS_CAP,
            default |-> DEFAULT_MAX_RESULTS]]]]

publicSentimentDefinition ==
  [name |-> "websearch_public_sentiment",
   description |-> "Scrape and summarise recent public sentiment for a given agentic tool based on live web search results.",
   input_schema |->
     [type |-> "object",
      properties |->
        [toolName |->
           [type |-> "string",
            description |-> "Name of the agentic coding tool to analyse for public sentiment."],
         maxResults |->
           [type |-> "integer",
            description |-> "Maximum number of search results to gather before scraping (1-10).",
            minimum |-> 1,
            maximum |-> MAX_RESULTS_CAP,
            default |-> DEFAULT_MAX_RESULTS],
         maxArticles |->
           [type |-> "integer",
            description |-> "Maximum number of result pages to fetch and analyse for sentiment (1-5).",
            minimum |-> 1,
            maximum |-> 5,
            default |-> DEFAULT_MAX_ARTICLES]],
      required |-> <<"toolName">>]]

\* The two tools registered when the module is loaded.
RegisteredTools ==
  registerTool(registerTool(<<>>, "websearch_agentic_tools", agenticToolsDefinition),
               "websearch_public_sentiment", publicSentimentDefinition)

GQuiet ==
  /\ call = [op |-> "none"]
  /\ gpc = "idle"
  /\ searchResults = <<>>
  /\ gi = 1
  /\ mentions = <<>>
  /\ fetchLog = <<>>
  /\ outcome = [kind |-> "none"]

GInit ==
  /\ searchProvider \in {"tavily", "duckduckgo"}
  /\ providers \in {f \in [Range(ProviderOrder) -> ProviderStates] :
                      f["duckduckgo"] \in {"ok", "network"}}
  /\ toolsMap = RegisteredTools
  /\ requests = <<>>
  /\ GQuiet

GEnv == <<searchProvider, providers, toolsMap, requests>>

\* The websearch_agentic_tools handler (or GET /api/research/agentic-tools)
\* normalises the supplied maxResults and calls searchAgenticTools.
CallSearchAgenticTools ==
  /\ gpc = "idle"
  /\ \E via \in Routes : \E camel \in ArgsOf(via), snake \in ArgsOf(via) :
       LET raw == Coalesce(camel, snake)
       IN  call' = [op |-> "searchAgenticTools", via |-> via,
                    query |-> DEFAULT_QUERY, rawResults |-> raw,
                    maxResults |-> normalizeNumber(raw, DEFAULT_MAX_RESULTS,
                                                   1, MAX_RESULTS_CAP)]
  /\ gpc' = "search"
  /\ UNCHANGED <<pvars, nvars, cvars>>
  /\ UNCHANGED <<uvars, svars, GEnv, searchResults, gi, mentions, fetchLog, outcome>>

\* The websearch_public_sentiment handler (or GET /api/research/sentiment)
\* normalises the supplied maxResults and maxArticles and calls
\* gatherPublicSentiment.
CallGatherPublicSentiment ==
  /\ gpc = "idle"
  /\ \E via \in Routes, tn \in ToolNames :
     \E camelR \in ArgsOf(via), snakeR \in ArgsOf(via),
        camelA \in ArgsOf(via), snakeA \in ArgsOf(via) :
       LET rawR == Coalesce(camelR, snakeR)
           rawA == Coalesce(camelA, snakeA)
       IN  call' = [op |-> "gatherPublicSentiment", via |-> via, toolName |-> tn,
                    rawResults |-> rawR, rawArticles |-> rawA,
                    maxResults |-> normalizeNumber(rawR, DEFAULT_MAX_RESULTS,
                                                   1, MAX_RESULTS_CAP),
                    maxArticles |-> normalizeNumber(rawA, DEFAULT_MAX_ARTICLES,
                                                    1, MAX_ARTICLES_CAP)]
  /\ gpc' = "search"
  /\ UNCHANGED <<pvars, nvars, cvars>>
  /\ UNCHANGED <<uvars, svars, GEnv, searchResults, gi, mentions, fetchLog, outcome>>

\* The call in progress: its arguments, where it is and its locals.
Frame ==
  [call |-> call, gpc |-> gpc, searchResults |-> searchResults, gi |-> gi,
   mentions |-> mentions, fetchLog |-> fetchLog, outcome |-> outcome]

\* The call goes on from frame f.
SetFrame(f) ==
  /\ call' = f.call
  /\ gpc' = f.gpc
  /\ searchResults' = f.searchResults
  /\ gi' = f.gi
  /\ mentions' = f.mentions
  /\ fetchLog' = f.fetchLog
  /\ outcome' = f.outcome

\* Where a call stands: before the await of performSearch, inside the loop
\* with a result to fetch, or at the end of the loop.
AtSearchAgenticTools(f) == f.gpc = "search" /\ f.call.op = "searchAgenticTools"
AtGatherSearch(f) == f.gpc = "search" /\ f.call.op = "gatherPublicSentiment"
AtGatherFetch(f) ==
  /\ f.gpc = "loop"
  /\ f.gi <= Len(f.searchResults)
  /\ Len(f.mentions) < f.call.maxArticles
AtGatherReturn(f) ==
  /\ f.gpc = "loop"
  /\ f.gi > Len(f.searchResults) \/ Len(f.mentions) >= f.call.maxArticles

\* searchAgenticTools: await performSearch, then wrap the results.
searchAgenticTools(f, payload) ==
  LET r == performSearch(payload, f.call.maxResults)
  IN  [f EXCEPT !.gpc = "done",
                !.outcome = IF r.threw
                              THEN [kind |-> "throw", message |-> r.message]
                              ELSE [kind |-> "return",
                                    value |-> [provider |-> searchProvider,
                                               query |-> f.call.query,
                                               fetchedAt |-> toISOString,
                                               results |-> r.results]]]

SearchAgenticTools ==
  /\ AtSearchAgenticTools(Frame)
  /\ \E payload \in Payloads : SetFrame(searchAgenticTools(Frame, payload))
  /\ UNCHANGED <<pvars, nvars, cvars>>
  /\ UNCHANGED <<uvars, svars, GEnv>>

\* gatherPublicSentiment up to its loop: await performSearch; a throw leaves
\* the function.
gatherSearch(f, payload) ==
  LET r == performSearch(payload, f.call.maxResults)
  IN  IF r.threw
        THEN [f EXCEPT !.outcome = [kind |-> "throw", message |-> r.message],
                       !.gpc = "done"]
        ELSE [f EXCEPT !.searchResults = r.results, !.gpc = "loop"]

GatherSearch ==
  /\ AtGatherSearch(Frame)
  /\ \E payload \in Payloads : SetFrame(gatherSearch(Frame, payload))
  /\ UNCHANGED <<pvars, nvars, cvars>>
  /\ UNCHANGED <<uvars, svars, GEnv>>

\* The catch block of the loop body.
gatherCatchMutRethrow(f, result, message) ==
  [f EXCEPT !.outcome = [kind |-> "throw", message |-> message], !.gpc = "done"]

gatherCatch(f, result, message) ==
  [f EXCEPT !.mentions = Append(@, errorMention(result, message)), !.gi = @ + 1]

\* The try block has pushed its mention.
gatherPush(f, mention) ==
  [f EXCEPT !.mentions = Append(@, mention), !.gi = @ + 1]

\* One iteration of 'for (const result of searchResults)' that does not break:
\* fetch the page, score it and push the mention, or push the error mention.
gatherTry(f, result, t) ==
  IF t.threw THEN gatherCatch(f, result, t.message) ELSE gatherPush(f, t.mention)

gatherFetch(f, fetched) ==
  gatherTry([f EXCEPT !.fetchLog = Append(@, fetched)], f.searchResults[f.gi],
            tryMention(f.searchResults[f.gi], fetched))

GatherFetch ==
  /\ AtGatherFetch(Frame)
  /\ \E fetched \in FetchOutcomes : SetFrame(gatherFetch(Frame, fetched))
  /\ UNCHANGED <<pvars, nvars, cvars>>
  /\ UNCHANGED <<uvars, svars, GEnv>>

\* The loop ends (no result left, or the break) and the record is returned;
\* an exception of summariseSentiment leaves the function.
gatherEnd(f, record) ==
  [f EXCEPT !.gpc = "done",
            !.outcome = IF "threw" \in DOMAIN record.summary
                          THEN [kind |-> "throw", message |-> record.summary.message]
                          ELSE [kind |-> "return", value |-> record]]

gatherReturn(f) ==
  gatherEnd(f, sentimentRecord(f.call.toolName, f.searchResults, f.mentions))

GatherReturn ==
  /\ AtGatherReturn(Frame)
  /\ SetFrame(gatherReturn(Frame))
  /\ UNCHANGED <<pvars, nvars, cvars>>
  /\ UNCHANGED <<uvars, svars, GEnv>>

\* The caller has taken the result; the server waits for the next call.
GatherDone ==
  /\ gpc = "done"
  /\ call' = [op |-> "none"]
  /\ gpc' = "idle"
  /\ searchResults' = <<>>
  /\ gi' = 1
  /\ mentions' = <<>>
  /\ fetchLog' = <<>>
  /\ outcome' = [kind |-> "none"]
  /\ UNCHANGED <<pvars, nvars, cvars>>
  /\ UNCHANGED <<uvars, svars, GEnv>>

(***************************************************************************)
(* The Pipeline Controller: start, status, subscribe and the phases of a   *)
(* Run.                                                                    *)
(***************************************************************************)
Phases == <<"planning", "discovery", "validation", "sentiment", "merge">>

\* A successor that skips validation.
NextPhaseMutSkip(p) ==
  IF p = "discovery" THEN "sentiment"
  ELSE IF p = "merge" THEN "done"
  ELSE Phases[(CHOOSE i \in DOMAIN Phases : Phases[i] = p) + 1]

\* The phase after p; after the merge the Run is done.
NextPhase(p) ==
  IF p = "merge" THEN "done"
  ELSE Phases[(CHOOSE i \in DOMAIN Phases : Phases[i] = p) + 1]

TerminalStatus == {"completed", "error"}

\* The progress event a Run emits next: its Run, its place in the Run's
\* emission order, its type and what it reports.
NewEvent(r, type, about) ==
  [run |-> r, seq |-> Len(runs[r].events) + 1, type |-> type, about |-> about]

RunningRuns == {r \in DOMAIN runs : runs[r].status = "running"}

\* A guard that never sees a Run.
RunActiveMutNever == FALSE

\* The state guard of start: a Run is active.
RunActive == RunningRuns # {}

\* What a freshly started Run looks like: planning, with the event that
\* announces the phase.
NewRun ==
  [status |-> "running", phase |-> "planning",
   events |-> <<[run |-> Len(runs) + 1, seq |-> 1, type |-> "progress",
                 about |-> "planning"]>>]

\* start(): a start request reaches the controller.  It is rejected while a
\* Run is active; otherwise the new Run supersedes the previous one.
HandleStart ==
  /\ \E req \in BagToSet(posts) :
       /\ posts' = posts (-) SetToBag({req})
       /\ IF RunActive
            THEN /\ responses' = responses (+) SetToBag({[req EXCEPT !.kind = "already_running"]})
                 /\ UNCHANGED runs
            ELSE /\ responses' = responses (+) SetToBag({[req EXCEPT !.kind = "started"]})
                 /\ runs' = Append(runs, NewRun)
  /\ UNCHANGED <<uvars, svars, gvars, catalog, polls, cvars>>

\* The phase of Run r finishes: the event summarising it is emitted, then the
\* next phase is announced, or, after the merge, the Run completes with the
\* "complete" event.
PhaseFinish(r) ==
  LET run == runs[r]
      next == NextPhase(run.phase)
      summary == NewEvent(r, "progress", run.phase)
  IN  /\ run.status = "running"
      /\ runs' = [runs EXCEPT ![r] =
           IF next = "done"
             THEN [status |-> "completed", phase |-> "done",
                   events |-> run.events \o
                     <<summary, [NewEvent(r, "complete", "done") EXCEPT !.seq = @ + 1]>>]
             ELSE [status |-> "running", phase |-> next,
                   events |-> run.events \o
                     <<summary, [NewEvent(r, "progress", next) EXCEPT !.seq = @ + 1]>>]]
      /\ UNCHANGED <<uvars, svars, gvars, catalog, nvars, cvars>>

\* A failure that also strikes a Run that has completed.
PhaseFailMutAnyTime(r) ==
  /\ runs[r].status # "error"
  /\ runs' = [runs EXCEPT ![r] =
       [@ EXCEPT !.status = "error",
                 !.events = Append(@, NewEvent(r, "error", runs[r].phase))]]
  /\ UNCHANGED <<uvars, svars, gvars, catalog, nvars, cvars>>

\* An unrecoverable failure in the phase of Run r: the Run ends in error with
\* the "error" event.
PhaseFail(r) ==
  /\ runs[r].status = "running"
  /\ runs' = [runs EXCEPT ![r] =
       [@ EXCEPT !.status = "error",
                 !.events = Append(@, NewEvent(r, "error", runs[r].phase))]]
  /\ UNCHANGED <<uvars, svars, gvars, catalog, nvars, cvars>>

\* status(): the snapshot of the current Run.
Snapshot ==
  IF runs = <<>> THEN [status |-> "idle", progress |-> <<>>]
  ELSE [status |-> runs[Len(runs)].status, progress |-> runs[Len(runs)].events]

\* A status request reaches the controller and is answered.
HandleStatus ==
  /\ \E req \in BagToSet(polls) :
       /\ req.stage = "sent"
       /\ polls' = (polls (-) SetToBag({req})) (+)
                   SetToBag({[closure |-> req.closure, stage |-> "answered",
                              status |-> Snapshot.status, progress |-> Snapshot.progress]})
  /\ UNCHANGED <<uvars, svars, gvars, pvars, posts, responses, cvars>>

(***************************************************************************)
(* ClaudeResearchControls.                                                 *)
(***************************************************************************)
\* A state setter: React ignores it once the component is unmounted.
SetState(old, new) == IF mounted THEN new ELSE old

\* checkStatus() is called from a closure that captured isResearching =
\* closure: the request leaves.
RequestStatus(closure) == polls (+) SetToBag({[closure |-> closure, stage |-> "sent"]})

PollRoom == BagCardinality(polls) < MaxPolls

\* What EventSource.close() leaves of a connection.
Closed(conn) == [conn EXCEPT !.state = "closed"]

\* The user presses "Start Autonomous Research": handleStartResearch up to its
\* await of the POST.
ClickStart ==
  /\ mounted
  /\ ~rendered
  /\ budget > 0
  /\ budget' = budget - 1
  /\ progressLog' = <<>>
  /\ isResearching' = TRUE
  /\ posts' = posts (+) SetToBag({[closure |-> rendered, kind |-> "request"]})
  /\ UNCHANGED <<uvars, svars, gvars, pvars, responses, polls, conns, timers,
                 eventSourceRef, rendered, status, isConnectedToStream, mounted>>

\* React renders the component with its current state.
Render ==
  /\ mounted
  /\ rendered # isResearching
  /\ rendered' = isResearching
  /\ UNCHANGED <<uvars, svars, gvars, pvars, nvars, conns, timers, eventSourceRef,
                 isResearching, status, progressLog, isConnectedToStream,
                 mounted, budget>>

\* The POST never reaches the controller: fetch rejects.
StartRequestLost ==
  /\ \E req \in BagToSet(posts) :
       /\ posts' = posts (-) SetToBag({req})
       /\ responses' = responses (+) SetToBag({[req EXCEPT !.kind = "failed"]})
  /\ UNCHANGED <<uvars, svars, gvars, pvars, polls, cvars>>

\* The controller has handled the POST but its response does not arrive: fetch
\* rejects.
StartResponseLost ==
  /\ \E resp \in BagToSet(responses) :
       /\ resp.kind # "failed"
       /\ responses' = (responses (-) SetToBag({resp})) (+)
                       SetToBag({[resp EXCEPT !.kind = "failed"]})
  /\ UNCHANGED <<uvars, svars, gvars, pvars, posts, polls, cvars>>

\* connectToProgressStream(): the connection the ref holds is closed and a new
\* EventSource takes its place.
connect(closure) ==
  Append(IF eventSourceRef # 0
           THEN [conns EXCEPT ![eventSourceRef] = Closed(@)]
           ELSE conns,
         [state |-> "connecting", run |-> 0, cursor |-> 0, closure |-> closure])

\* A start handler whose catch block leaves isResearching as it is.
StartResponseMutKeepResearching ==
  /\ \E resp \in BagToSet(responses) :
       /\ responses' = responses (-) SetToBag({resp})
       /\ IF resp.kind = "started"
            THEN /\ conns' = connect(resp.closure)
                 /\ eventSourceRef' = Len(conns) + 1
                 /\ timers' = timers (+) SetToBag({[closure |-> resp.closure]})
                 /\ UNCHANGED isResearching
            ELSE UNCHANGED <<isResearching, conns, eventSourceRef, timers>>
  /\ UNCHANGED <<uvars, svars, gvars, pvars, posts, polls, rendered, status,
                 progressLog, isConnectedToStream, mounted, budget>>

\* handleStartResearch after its await: on a response that is OK the stream is
\* connected and the backup interval set; otherwise the catch block runs.
StartResponse ==
  /\ \E resp \in BagToSet(responses) :
       /\ responses' = responses (-) SetToBag({resp})
       /\ IF resp.kind = "started"
            THEN /\ conns' = connect(resp.closure)
                 /\ eventSourceRef' = Len(conns) + 1
                 /\ timers' = timers (+) SetToBag({[closure |-> resp.closure]})
                 /\ UNCHANGED isResearching
            ELSE /\ isResearching' = SetState(isResearching, FALSE)
                 /\ UNCHANGED <<conns, eventSourceRef, timers>>
  /\ UNCHANGED <<uvars, svars, gvars, pvars, posts, polls, rendered, status,
                 progressLog, isConnectedToStream, mounted, budget>>

\* The controller accepts the subscription: the stream is that of the current
\* Run; eventSource.onopen.
StreamOpen(c) ==
  /\ conns[c].state = "connecting"
  /\ conns' = [conns EXCEPT ![c].state = "open", ![c].run = Len(runs)]
  /\ isConnectedToStream' = SetState(isConnectedToStream, TRUE)
  /\ UNCHANGED <<uvars, svars, gvars, pvars, nvars, timers, eventSourceRef,
                 isResearching, rendered, status, progressLog, mounted, budget>>

\* The next event of the stream, if the Run has emitted one the connection
\* has not delivered.
Pending(c) ==
  /\ conns[c].state = "open"
  /\ conns[c].run \in DOMAIN runs
  /\ conns[c].cursor < Len(runs[conns[c].run].events)

\* A controller that leaves the stream open after a terminal event.
EndOfStreamMutStayOpen(conn, type) == conn

\* The controller ends the stream after a terminal event.
EndOfStream(conn, type) ==
  IF type \in {"complete", "error"} /\ conn.state = "open"
    THEN [conn EXCEPT !.state = "ended"]
    ELSE conn

\* What onmessage does to the connection: it closes it on "complete".
AfterMessage(conn, type) == IF type = "complete" THEN Closed(conn) ELSE conn

\* eventSource.onmessage: the event is appended to the log; on "complete" the
\* connection is closed and the status checked.
StreamMessage(c) ==
  /\ Pending(c)
  /\ LET conn == conns[c]
         event == runs[conn.run].events[conn.cursor + 1]
     IN  /\ event.type = "complete" => PollRoom
         /\ progressLog' = SetState(progressLog, Append(progressLog, event))
         /\ conns' = [conns EXCEPT ![c] =
              EndOfStream(AfterMessage([conn EXCEPT !.cursor = @ + 1], event.type),
                          event.type)]
         /\ IF event.type = "complete"
              THEN /\ isConnectedToStream' = SetState(isConnectedToStream, FALSE)
                   /\ polls' = RequestStatus(conn.closure)
              ELSE UNCHANGED <<isConnectedToStream, polls>>
  /\ UNCHANGED <<uvars, svars, gvars, pvars, posts, responses, timers, eventSourceRef,
                 isResearching, rendered, status, mounted, budget>>

\* eventSource.onerror (the connection failed, or the controller ended the
\* stream): the connection is closed and the status checked.
StreamError(c) ==
  /\ conns[c].state \in {"connecting", "open", "ended"}
  /\ PollRoom
  /\ conns' = [conns EXCEPT ![c] = Closed(@)]
  /\ isConnectedToStream' = SetState(isConnectedToStream, FALSE)
  /\ polls' = RequestStatus(conns[c].closure)
  /\ UNCHANGED <<uvars, svars, gvars, pvars, posts, responses, timers, eventSourceRef,
                 isResearching, rendered, status, progressLog, mounted, budget>>

\* The backup interval fires: checkStatus(), and the interval is cleared when
\* the isResearching its closure captured is false.
TimerTick ==
  /\ PollRoom
  /\ \E t \in BagToSet(timers) :
       /\ polls' = RequestStatus(t.closure)
       /\ timers' = IF ~t.closure THEN timers (-) SetToBag({t}) ELSE timers
  /\ UNCHANGED <<uvars, svars, gvars, pvars, posts, responses, conns, eventSourceRef,
                 isResearching, rendered, status, progressLog,
                 isConnectedToStream, mounted, budget>>

\* The user presses the refresh button.
ClickRefresh ==
  /\ mounted
  /\ ~rendered
  /\ PollRoom
  /\ polls' = RequestStatus(rendered)
  /\ UNCHANGED <<uvars, svars, gvars, pvars, posts, responses, cvars>>

\* A status request or its answer is lost, or the answer is not OK:
\* checkStatus catches the error and changes nothing.
StatusLost ==
  /\ \E req \in BagToSet(polls) : polls' = polls (-) SetToBag({req})
  /\ UNCHANGED <<uvars, svars, gvars, pvars, posts, responses, cvars>>

\* The log checkStatus builds from a snapshot's progress list.
existingProgress(progress) ==
  [i \in DOMAIN progress |-> [progress[i] EXCEPT !.type = "progress"]]

\* loadTools() of ToolsSection up to its await: loading is set, the error
\* cleared and GET /tools sent.
loadTools(section) ==
  [section EXCEPT !.loading = TRUE, !.error = "null",
                  !.awaiting = @ + 1, !.loads = @ + 1]

\* handleResearchComplete of ToolsSection, the onResearchComplete it mounts
\* both controls with.  Where ToolsSection is not part of the page the
\* controls are those of Index.tsx, whose handler hides them: the step
\* Unmount.
handleResearchComplete(section) ==
  IF section.mounted THEN loadTools(section) ELSE section

\* checkStatus after its await: the snapshot is stored; if its closure saw
\* isResearching and the snapshot says completed, the research is ended and
\* onResearchComplete() called; a snapshot with progress replaces the log.
StatusResponse ==
  /\ \E resp \in BagToSet(polls) :
       /\ resp.stage = "answered"
       /\ polls' = polls (-) SetToBag({resp})
       /\ status' = SetState(status, resp.status)
       /\ LET ends == resp.closure /\ resp.status = "completed"
          IN  /\ isResearching' = IF ends THEN SetState(isResearching, FALSE) ELSE isResearching
              /\ isConnectedToStream' =
                   IF ends THEN SetState(isConnectedToStream, FALSE) ELSE isConnectedToStream
              /\ conns' = IF ends /\ eventSourceRef # 0
                            THEN [conns EXCEPT ![eventSourceRef] = Closed(@)] ELSE conns
              /\ eventSourceRef' = IF ends THEN 0 ELSE eventSourceRef
              /\ toolsSection' = IF ends THEN handleResearchComplete(toolsSection)
                                  ELSE toolsSection
       /\ progressLog' = IF Len(resp.progress) > 0
                           THEN SetState(progressLog, existingProgress(resp.progress))
                           ELSE progressLog
  /\ UNCHANGED <<researchControls, tagSelector, svars, gvars, pvars, posts,
                 responses, timers, rendered, mounted, budget>>

\* The component unmounts: the cleanup effect closes the connection the ref
\* holds.
Unmount ==
  /\ mounted
  /\ mounted' = FALSE
  /\ conns' = IF eventSourceRef # 0
                THEN [conns EXCEPT ![eventSourceRef] = Closed(@)] ELSE conns
  /\ UNCHANGED <<uvars, svars, gvars, pvars, nvars, timers, eventSourceRef,
                 isResearching, rendered, status, progressLog,
                 isConnectedToStream, budget>>

\* The controller and the client before anything has happened: no Run; the
\* component has mounted and its mount effect has called checkStatus().
PInit == runs = <<>> /\ catalog = <<>>
CInit ==
  /\ posts = EmptyBag
  /\ responses = EmptyBag
  /\ polls = SetToBag({[closure |-> FALSE, stage |-> "sent"]})
  /\ conns = <<>>
  /\ timers = EmptyBag
  /\ eventSourceRef = 0
  /\ isResearching = FALSE
  /\ rendered = FALSE
  /\ status = "null"
  /\ progressLog = <<>>
  /\ isConnectedToStream = FALSE
  /\ mounted = TRUE
  /\ budget = MaxClicks

\* The same, with MaxStarts presses of the start button to come.
CStart ==
  /\ posts = EmptyBag
  /\ responses = EmptyBag
  /\ polls = SetToBag({[closure |-> FALSE, stage |-> "sent"]})
  /\ conns = <<>>
  /\ timers = EmptyBag
  /\ eventSourceRef = 0
  /\ isResearching = FALSE
  /\ rendered = FALSE
  /\ status = "null"
  /\ progressLog = <<>>
  /\ isConnectedToStream = FALSE
  /\ mounted = TRUE
  /\ budget = MaxStarts

\* The same, for the specifications in which research never starts.
CQuiet ==
  /\ posts = EmptyBag
  /\ responses = EmptyBag
  /\ polls = EmptyBag
  /\ conns = <<>>
  /\ timers = EmptyBag
  /\ eventSourceRef = 0
  /\ isResearching = FALSE
  /\ rendered = FALSE
  /\ status = "null"
  /\ progressLog = <<>>
  /\ isConnectedToStream = FALSE
  /\ mounted = FALSE
  /\ budget = 0

(***************************************************************************)
(* Specifications.                                                         *)
(***************************************************************************)
GEnvQuiet ==
  /\ searchProvider = "tavily"
  /\ providers = [p \in Range(ProviderOrder) |-> "ok"]
  /\ toolsMap = RegisteredTools
  /\ requests = <<>>

InitSentiment == SInit /\ GEnvQuiet /\ GQuiet /\ PInit /\ CQuiet
NextSentiment == Analyze
SpecSentiment == InitSentiment /\ [][NextSentiment]_vars

InitSummary == MInit /\ GEnvQuiet /\ GQuiet /\ PInit /\ CQuiet
NextSummary == Summarise
SpecSummary == InitSummary /\ [][NextSummary]_vars

InitServer == SQuiet /\ GInit /\ PInit /\ CQuiet
NextServer ==
  \/ CallSearchAgenticTools
  \/ CallGatherPublicSentiment
  \/ SearchAgenticTools
  \/ GatherSearch
  \/ GatherFetch
  \/ GatherReturn
  \/ GatherDone
SpecServer == InitServer /\ [][NextServer]_vars

Init == SQuiet /\ GEnvQuiet /\ GQuiet /\ PInit /\ CInit
Next ==
  \/ ClickStart
  \/ Render
  \/ StartRequestLost
  \/ StartResponseLost
  \/ HandleStart
  \/ StartResponse
  \/ \E c \in DOMAIN conns : StreamOpen(c)
  \/ \E c \in DOMAIN conns : StreamMessage(c)
  \/ \E c \in DOMAIN conns : StreamError(c)
  \/ TimerTick
  \/ ClickRefresh
  \/ HandleStatus
  \/ StatusLost
  \/ StatusResponse
  \/ Unmount
  \/ \E r \in DOMAIN runs : PhaseFinish(r)
  \/ \E r \in DOMAIN runs : PhaseFail(r)
Spec == Init /\ [][Next]_vars

\* The start button as the user finds it: it is disabled while isResearching,
\* and the state a handler has set is on the page before the next press is
\* handled.
PressStart == rendered = isResearching /\ ClickStart

\* The control with MaxStarts presses of the start button, each on the page
\* as the state has left it: a second press follows a start that failed.
InitStream == SQuiet /\ GEnvQuiet /\ GQuiet /\ PInit /\ CStart
NextStream ==
  \/ PressStart
  \/ Render
  \/ StartRequestLost
  \/ StartResponseLost
  \/ HandleStart
  \/ StartResponse
  \/ \E c \in DOMAIN conns : StreamOpen(c)
  \/ \E c \in DOMAIN conns : StreamMessage(c)
  \/ \E c \in DOMAIN conns : StreamError(c)
  \/ TimerTick
  \/ ClickRefresh
  \/ HandleStatus
  \/ StatusLost
  \/ StatusResponse
  \/ Unmount
  \/ \E r \in DOMAIN runs : PhaseFinish(r)
  \/ \E r \in DOMAIN runs : PhaseFail(r)
SpecStream == InitStream /\ [][NextStream]_vars

\* The start path alone: the start handler of the control against the
\* controller.  The stream and the status checks, which change neither the
\* Runs nor the start requests, stay where Init puts them.
InitStart == SQuiet /\ GEnvQuiet /\ GQuiet /\ PInit /\ CStart
NextStart ==
  \/ ClickStart
  \/ Render
  \/ StartRequestLost
  \/ StartResponseLost
  \/ HandleStart
  \/ StartResponse
  \/ \E r \in DOMAIN runs : PhaseFinish(r)
  \/ \E r \in DOMAIN runs : PhaseFail(r)
SpecStart == InitStart /\ [][NextStart]_vars

\* Every external call returns or fails: the phase a Run is in finishes or
\* fails.
Fairness ==
  \A r \in 1..MaxStarts :
    WF_vars(r \in DOMAIN runs /\ (PhaseFinish(r) \/ PhaseFail(r)))
FairSpecStart == SpecStart /\ Fairness

(***************************************************************************)
(* Helpers of the properties.                                              *)
(***************************************************************************)
IsPrefix(p, q) == Len(p) <= Len(q) /\ \A i \in DOMAIN p : p[i] = q[i]

\* A fetch that yields no scored page: it rejected, the response was not OK,
\* or the page holds no readable text.
FetchFailed(fetched) ==
  \/ fetched.kind = "reject"
  \/ fetched.kind = "response" /\ ~fetched.ok
  \/ fetched.kind = "response" /\ fetched.ok /\ stripHtml(fetched.html) = <<>>

\* A call of gatherPublicSentiment has returned its record.
GatherReturned ==
  gpc = "done" /\ call.op = "gatherPublicSentiment" /\ outcome.kind = "return"

\* The positions of the mentions without an error field.
Scored(ms) == {i \in DOMAIN ms : "error" \notin DOMAIN ms[i]}

RECURSIVE SumOver(_, _)
\* The sum of f[i] over the finite set I of integers.
SumOver(I, f) ==
  IF I = {} THEN 0
  ELSE LET i == CHOOSE x \in I : TRUE
       IN  f[i] + SumOver(I \ {i}, f)

\* The first provider, in the order of preference, that answers.
Answering == {i \in DOMAIN ProviderOrder : providers[ProviderOrder[i]] = "ok"}
FirstAnswering == ProviderOrder[CHOOSE i \in Answering : \A j \in Answering : i <= j]

(***************************************************************************)
(* Properties of the Pipeline Controller and of the progress stream.       *)
(***************************************************************************)
\* The responses this step adds.
NewResponses == {resp \in BagToSet(responses') :
                   CopiesIn(resp, responses') > CopiesIn(resp, responses)}

C1_AtMostOneRunning == Cardinality({r \in DOMAIN runs : runs[r].status = "running"}) <= 1

C1_RejectedWhileRunning ==
  (\E r \in DOMAIN runs : runs[r].status = "running") =>
    /\ DOMAIN runs' = DOMAIN runs
    /\ \A resp \in NewResponses : resp.kind \in {"already_running", "failed"}
    /\ BagCardinality(posts') < BagCardinality(posts) =>
         BagCardinality(posts') + BagCardinality(responses') =
           BagCardinality(posts) + BagCardinality(responses)

\* C1: single-flight.  At most one Run is running at any moment; while a Run
\* is running no step starts another Run, a start request that is taken up is
\* answered (with "already running" if it reached the controller) and not
\* kept, whatever the order of the requests, two presses of the start button
\* before the control is rendered again included.
C1_SingleFlight == []C1_AtMostOneRunning /\ [][C1_RejectedWhileRunning]_vars

\* A Run is running and a start request has been answered "already running".
C1_Witness ==
  /\ \E r \in DOMAIN runs : runs[r].status = "running"
  /\ \E resp \in BagToSet(responses) : resp.kind = "already_running"

C2_TerminalIsFinal ==
  \A r \in DOMAIN runs :
    runs[r].status \in TerminalStatus => r \in DOMAIN runs' /\ runs'[r] = runs[r]

\* C2: every started Run reaches a terminal status, completed or error, and
\* stays there: if every phase eventually finishes or fails, no Run is running
\* forever, and a Run in a terminal status never changes again.
C2_RunsTerminate ==
  /\ \A r \in 1..MaxStarts :
       [](r \in DOMAIN runs => <>(r \in DOMAIN runs /\ runs[r].status \in TerminalStatus))
  /\ [][C2_TerminalIsFinal]_vars
  /\ [](\A r \in DOMAIN runs : runs[r].status \in {"running"} \cup TerminalStatus)

\* One Run has ended in error and another has completed.
C2_Witness ==
  /\ \E r \in DOMAIN runs : runs[r].status = "error"
  /\ \E r \in DOMAIN runs : runs[r].status = "completed"

\* The log as the events it holds, whatever type the client has given them.
EventIds(log) == [i \in DOMAIN log |-> <<log[i].run, log[i].seq>>]

\* C3: the client's progress log is always a prefix of the event sequence of
\* a Run, under every interleaving of stream messages and status snapshots:
\* no event is lost, duplicated or reordered.
C3_LogIsPrefix ==
  \/ progressLog = <<>>
  \/ \E r \in DOMAIN runs : IsPrefix(EventIds(progressLog), EventIds(runs[r].events))

\* What a connection has delivered.
Delivered(c) ==
  IF conns[c].run \in DOMAIN runs
    THEN SubSeq(runs[conns[c].run].events, 1, conns[c].cursor)
    ELSE <<>>

TerminalDelivered(c) ==
  \E i \in DOMAIN Delivered(c) : Delivered(c)[i].type \in {"complete", "error"}

\* The Runs whose terminal event the control has been delivered.
EndedRuns == {conns[c].run : c \in {d \in DOMAIN conns : TerminalDelivered(d)}}

\* A connection that has delivered a terminal event has delivered the whole
\* Run, the terminal event last, and is open no more: ended by the
\* controller, closed by the handler after "complete".
C4_StreamEnded ==
  \A c \in DOMAIN conns :
       TerminalDelivered(c) =>
         /\ conns[c].state \in {"ended", "closed"}
         /\ Delivered(c)[conns[c].cursor].type \in {"complete", "error"}
         /\ Delivered(c)[conns[c].cursor].type = "complete" => conns[c].state = "closed"
         /\ conns[c].cursor = Len(runs[conns[c].run].events)

\* In the log nothing follows a "complete" or an "error" event the stream has
\* delivered (the entries a status check stores are all of type "progress"),
\* and no stream is open on a Run whose terminal event has been delivered.
C4_TerminalIsLast ==
  /\ \A i \in DOMAIN progressLog :
       progressLog[i].type \in {"complete", "error"} => i = Len(progressLog)
  /\ \A c \in DOMAIN conns :
       conns[c].run \in EndedRuns => conns[c].state \in {"ended", "closed"}

\* Such a connection delivers nothing more, never opens again, and its Run
\* emits nothing more.
C4_NothingAfter ==
  \A c \in DOMAIN conns :
    TerminalDelivered(c) =>
      /\ c \in DOMAIN conns'
      /\ conns'[c].cursor = conns[c].cursor
      /\ conns'[c].state \in {"ended", "closed"}
      /\ runs'[conns[c].run].events = runs[conns[c].run].events

\* Once the terminal event of a Run has been delivered, no connection
\* delivers anything, and the log changes only where the control rewrites it
\* as a whole: the next press of the start button empties it, a status
\* check stores the progress list of its snapshot.  Neither puts anything
\* behind a terminal event.
C4_NothingRecorded ==
  EndedRuns # {} =>
    /\ \A c \in DOMAIN conns : conns'[c].cursor = conns[c].cursor
    /\ \/ progressLog' = progressLog
       \/ progressLog' = <<>>
       \/ \E resp \in BagToSet(polls) :
            /\ resp.stage = "answered"
            /\ Len(resp.progress) > 0
            /\ progressLog' = existingProgress(resp.progress)

\* C4: the terminal event ends the stream.  Once a connection has delivered a
\* "complete" or an "error" event, that event is the last one of its Run, the
\* connection is no longer open (the handler has closed it after "complete",
\* the controller has ended it after "error"), no connection delivers
\* anything more to onmessage, and nothing is recorded behind the terminal
\* event in the log of the control.
C4_TerminalEndsStream ==
  /\ [](C4_StreamEnded /\ C4_TerminalIsLast)
  /\ [][C4_NothingAfter /\ C4_NothingRecorded]_vars

\* The first start has failed and the second press has started a Run; its
\* connection has delivered the "complete" event and is closed, and the
\* status check the handler then made has been answered and has stored the
\* finished Run's progress list in the log.
C4_Witness ==
  /\ budget = 0
  /\ polls = EmptyBag
  /\ status = "completed"
  /\ \E c \in DOMAIN conns :
       /\ conns[c].state = "closed"
       /\ TerminalDelivered(c)
       /\ Delivered(c)[conns[c].cursor].type = "complete"
       /\ EventIds(progressLog) = EventIds(runs[conns[c].run].events)
       /\ progressLog[Len(progressLog)].type = "progress"

PhaseOrder == Phases \o <<"done">>
PhaseIndex(p) == CHOOSE i \in DOMAIN PhaseOrder : PhaseOrder[i] = p

C5_EventsInOrder ==
  \A r \in DOMAIN runs :
    \A i \in DOMAIN runs[r].events :
      LET e == runs[r].events[i]
      IN  /\ e.type = "progress" => e.about = Phases[(i + 1) \div 2]
          /\ e.type \in {"complete", "error"} => i = Len(runs[r].events)
          /\ e.type = "complete" => i = 2 * Len(Phases) + 1

C5_PhaseStep ==
  /\ \A r \in DOMAIN runs :
       /\ r \in DOMAIN runs'
       /\ \/ runs'[r] = runs[r]
          \/ /\ runs[r].status = "running"
             /\ PhaseIndex(runs'[r].phase) = PhaseIndex(runs[r].phase) + 1
             /\ runs'[r].status = IF runs'[r].phase = "done" THEN "completed" ELSE "running"
          \/ /\ runs[r].status = "running"
             /\ runs'[r].status = "error"
             /\ runs'[r].phase = runs[r].phase
  /\ \A r \in DOMAIN runs' \ DOMAIN runs :
       runs'[r].status = "running" /\ runs'[r].phase = "planning"

\* C5: the phases of a Run execute in the order planning, discovery,
\* validation, sentiment, merge, completed.  A Run starts in planning; a step
\* takes a running Run to the next phase of the order, or to error in the
\* phase it is in, and nowhere else; the events announce and summarise the
\* phases in that order, every summary before the next announcement.
C5_PhasesInOrder == []C5_EventsInOrder /\ [][C5_PhaseStep]_vars

\* A Run has gone through every phase and completed.
C5_Witness ==
  \E r \in DOMAIN runs :
    /\ runs[r].phase = "done"
    /\ Len(runs[r].events) = 2 * Len(Phases) + 1

(***************************************************************************)
(* Properties of the search adapter and of the sentiment gathering.        *)
(***************************************************************************)
\* C6: provider fallback.  With the primary provider configured, a finished
\* search throws only if every provider of the order fails; otherwise it
\* returns, and searchAgenticTools tags the results with the name of the first
\* provider of the order that answers.
C6_ProviderFallback ==
  (gpc = "done" /\ searchProvider = ProviderOrder[1] /\ fetchLog = <<>>) =>
     IF Answering = {}
       THEN outcome.kind = "throw"
       ELSE /\ outcome.kind = "return"
            /\ call.op = "searchAgenticTools" => outcome.value.provider = FirstAnswering

\* C7: in gatherPublicSentiment every fetch made so far has left one mention
\* for its result, in order, carrying an error field exactly when the fetch
\* failed; once the loop runs the call ends by returning a record that holds
\* all these mentions; and no step of the loop removes or changes a mention
\* already collected.
C7_MentionPerFetch ==
  /\ Len(mentions) = Len(fetchLog)
  /\ \A i \in DOMAIN fetchLog :
       /\ mentions[i].url = searchResults[i].url
       /\ FetchFailed(fetchLog[i]) <=> "error" \in DOMAIN mentions[i]
  /\ (gpc = "done" /\ fetchLog # <<>>) =>
       /\ outcome.kind = "return"
       /\ outcome.value.mentions = mentions

C7_FetchFailureContained ==
  /\ []C7_MentionPerFetch
  /\ [][gpc = "loop" => (IsPrefix(mentions, mentions') /\ gpc' \in {"loop", "done"})]_vars

\* Reached: a returned record whose first fetch failed and whose second
\* succeeded.
C7_Witness ==
  /\ GatherReturned
  /\ Len(fetchLog) >= 2
  /\ FetchFailed(fetchLog[1])
  /\ "error" \in DOMAIN outcome.value.mentions[1]
  /\ "sentiment" \in DOMAIN outcome.value.mentions[2]

\* C8: in every returned record analyzedCount is the number of mentions
\* without an error field; when every fetch of the call failed it is 0, the
\* rating is "unknown", both averages are zero and so is the distribution.
C8_AnalyzedCount ==
  GatherReturned =>
    LET rec == outcome.value
    IN  /\ rec.analyzedCount = Cardinality(Scored(rec.mentions))
        /\ (\A i \in DOMAIN fetchLog : FetchFailed(fetchLog[i])) =>
             /\ rec.analyzedCount = 0
             /\ rec.summary.rating = "unknown"
             /\ rec.summary.averageScore.num = 0
             /\ rec.summary.averageNormalizedScore = DZero
             /\ rec.summary.distribution = [positive |-> 0, neutral |-> 0, negative |-> 0]

\* Reached: a returned record after two fetches that both failed.
C8_Witness ==
  /\ GatherReturned
  /\ Len(fetchLog) >= 2
  /\ \A i \in DOMAIN fetchLog : FetchFailed(fetchLog[i])

RECURSIVE DoubleSumOver(_, _, _)
\* The sum, added up in doubles in the order of the list, of the normalized
\* scores of the mentions at the positions of I among the first k.
DoubleSumOver(ms, I, k) ==
  IF k = 0 THEN DZero
  ELSE IF k \in I
    THEN DoubleAdd(DoubleSumOver(ms, I, k - 1),
                   DoubleOfRatio(ms[k].sentiment.normalizedScore.num,
                                 ms[k].sentiment.normalizedScore.den))
  ELSE DoubleSumOver(ms, I, k - 1)

\* C9: in every returned record the two averages are the means over exactly
\* the mentions without an error field (averageNormalizedScore being their
\* sum in doubles divided by their number), the distribution counts exactly those
\* mentions by label (so its three counts sum to analyzedCount), and the
\* mention of every failed fetch is still in the list.
C9_Aggregation ==
  GatherReturned =>
    LET rec == outcome.value
        ms == rec.mentions
        ok == Scored(ms)
        n == Cardinality(ok)
        d == rec.summary.distribution
        avg == rec.summary.averageScore
        navg == rec.summary.averageNormalizedScore
    IN  /\ d.positive = Cardinality({i \in ok : ms[i].sentiment.label = "positive"})
        /\ d.neutral = Cardinality({i \in ok : ms[i].sentiment.label = "neutral"})
        /\ d.negative = Cardinality({i \in ok : ms[i].sentiment.label = "negative"})
        /\ d.positive + d.neutral + d.negative = rec.analyzedCount
        /\ avg.num * n = SumOver(ok, [i \in ok |-> ms[i].sentiment.score]) * avg.den
        /\ n > 0 => navg = DoubleDiv(DoubleSumOver(ms, ok, Len(ms)), n)
        /\ \A i \in DOMAIN fetchLog :
             FetchFailed(fetchLog[i]) =>
               /\ i \in DOMAIN ms
               /\ "error" \in DOMAIN ms[i]
               /\ ms[i].url = searchResults[i].url

\* Reached: a returned record that mixes a failed fetch with two scored
\* pages of different scores.
C9_Witness ==
  /\ GatherReturned
  /\ \E i, j, k \in DOMAIN outcome.value.mentions :
       LET ms == outcome.value.mentions
       IN  /\ "error" \in DOMAIN ms[i]
           /\ "sentiment" \in DOMAIN ms[j]
           /\ "sentiment" \in DOMAIN ms[k]
           /\ ms[j].sentiment.score # ms[k].sentiment.score

(***************************************************************************)
(* Properties of the sentiment scorer.                                     *)
(***************************************************************************)
\* C10: the label is "positive" exactly when normalizedScore > 0.02,
\* "negative" exactly when normalizedScore < -0.02 and "neutral" otherwise;
\* 0.02 and -0.02 themselves are neutral.
C10_LabelThresholds ==
  \A i \in DOMAIN sResult :
    LET r == sResult[i]
        above == 50 * r.normalizedScore.num > r.normalizedScore.den
        below == 50 * r.normalizedScore.num < -r.normalizedScore.den
    IN  /\ r.label = "positive" <=> above
        /\ r.label = "negative" <=> below
        /\ r.label = "neutral" <=> (~above /\ ~below)

\* Reached: a text of fifty tokens with one positive word, scored 1/50 = 0.02
\* and labelled neutral.
C10_Witness ==
  /\ sResult # <<>>
  /\ sResult[1].total = 50
  /\ sResult[1].score = 1
  /\ sResult[1].label = "neutral"

\* The tokens of a text, read off the text itself: the maximal runs of
\* characters that are letters or digits once lowered, by where they start.
RunStarts(t) ==
  {i \in DOMAIN t : /\ IsTokenChar(ToLowerChar(t[i]))
                    /\ i = 1 \/ ~IsTokenChar(ToLowerChar(t[i - 1]))}

RunEnd(t, i) ==
  CHOOSE j \in i..Len(t) :
    /\ \A k \in i..j : IsTokenChar(ToLowerChar(t[k]))
    /\ j = Len(t) \/ ~IsTokenChar(ToLowerChar(t[j + 1]))

RECURSIVE Word(_, _, _)
\* The lowered characters t[i..j] as one string.
Word(t, i, j) == IF i > j THEN "" ELSE ToLowerChar(t[i]) \o Word(t, i + 1, j)

RunWord(t, i) == Word(t, i, RunEnd(t, i))

\* The k-th least element of a finite set of integers.
KthOf(I, k) == CHOOSE i \in I : Cardinality({j \in I : j <= i}) = k

\* C11: for every text, the empty one included, normalizedScore lies in
\* [-1, 1]; positive + negative does not exceed the number of tokens, and
\* |score| does not exceed max(number of tokens, 1).
C11_NormalizedScoreRange ==
  \A i \in DOMAIN sResult :
    LET r == sResult[i]
        tokenCount == Cardinality(RunStarts(sText))
        most == IF tokenCount = 0 THEN 1 ELSE tokenCount
    IN  /\ r.normalizedScore.den > 0
        /\ -r.normalizedScore.den <= r.normalizedScore.num
        /\ r.normalizedScore.num <= r.normalizedScore.den
        /\ r.positive + r.negative <= tokenCount
        /\ r.score <= most
        /\ -most <= r.score

\* Reached: a text whose only token is a negative word, scored -1.
C11_Witness ==
  /\ sResult # <<>>
  /\ sResult[1].total = 1
  /\ sResult[1].normalizedScore = [num |-> -1, den |-> 1]

\* C12: score is the number of tokens in the positive set minus the number in
\* the negative set, normalizedScore is score / max(number of tokens, 1), the
\* tokens being the maximal runs of letters and digits of the lowered text,
\* and the highlights are the matched tokens with their polarity, one each,
\* in text order.
C12_ScoreFormula ==
  \A i \in DOMAIN sResult :
    LET r == sResult[i]
        starts == RunStarts(sText)
        pos == {s \in starts : RunWord(sText, s) \in positiveWords}
        neg == {s \in starts : RunWord(sText, s) \in negativeWords}
        matched == pos \cup neg
        most == IF starts = {} THEN 1 ELSE Cardinality(starts)
    IN  /\ r.score = Cardinality(pos) - Cardinality(neg)
        /\ r.total = most
        /\ r.normalizedScore.num * most = r.score * r.normalizedScore.den
        /\ Len(r.highlights) = Cardinality(matched)
        /\ \A k \in DOMAIN r.highlights :
             LET s == KthOf(matched, k)
             IN  /\ r.highlights[k].token = RunWord(sText, s)
                 /\ r.highlights[k].polarity = IF s \in pos THEN "positive" ELSE "negative"

\* Reached: a text with filler tokens, an upper-case negative word and a
\* positive word glued to a digit (so not a word of the lexicon).
C12_Witness ==
  /\ sResult # <<>>
  /\ sResult[1].total > 2
  /\ sResult[1].highlights = <<[token |-> "hate", polarity |-> "negative"]>>

(***************************************************************************)
(* Properties of summariseSentiment.                                       *)
(***************************************************************************)
\* C13: the rating is "unknown" exactly when no entry is without an error;
\* otherwise the averageNormalizedScore is the mean of the normalized scores
\* of the entries without an error, as the sum and the quotient of doubles
\* give it, and the rating is "positive" exactly when that average is > 0.02,
\* "negative" exactly when it is < -0.02, and "neutral" otherwise.
C13_RatingThresholds ==
  \A r \in DOMAIN ret :
    LET ok == Scored(arg)
        n == Cardinality(ok)
        avg == ret[r].averageNormalizedScore
        above == DoubleGt(avg, PositiveThresholdDouble)
        below == DoubleLt(avg, NegativeThresholdDouble)
    IN  /\ ret[r].rating = "unknown" <=> n = 0
        /\ n > 0 =>
             /\ avg = DoubleDiv(DoubleSumOver(arg, ok, Len(arg)), n)
             /\ ret[r].rating = "positive" <=> above
             /\ ret[r].rating = "negative" <=> below
             /\ ret[r].rating = "neutral" <=> (~above /\ ~below)

\* Reached: a positive mention (1/25) and a neutral one (0), with a failed
\* fetch between them, average exactly 0.02 and rated neutral.
C13_Witness ==
  /\ ret # <<>>
  /\ Len(arg) = 3
  /\ "error" \in DOMAIN arg[2]
  /\ ret[1].averageNormalizedScore = PositiveThresholdDouble
  /\ ret[1].distribution.positive = 1
  /\ ret[1].rating = "neutral"

(***************************************************************************)
(* Further properties of the sentiment gathering.                          *)
(***************************************************************************)
\* C14: in every returned sentiment record no two mentions have the same URL,
\* whatever list of results the provider returned, lists that repeat a URL
\* included.
C14_OneMentionPerUrl ==
  GatherReturned =>
    \A i, j \in DOMAIN outcome.value.mentions :
      i # j => outcome.value.mentions[i].url # outcome.value.mentions[j].url

\* The smaller of two numbers.
Min(a, b) == IF a < b THEN a ELSE b

\* During a call of gatherPublicSentiment the bounds hold: maxArticles is at
\* most 5 and maxResults at most 10, no more pages have been fetched than
\* maxArticles, no more results are considered than maxResults, and the
\* mentions follow the search results one for one; a returned record has
\* exactly min(maxArticles, totalResults) mentions.
C15_WithinBounds ==
  call.op = "gatherPublicSentiment" =>
    /\ call.maxArticles <= 5
    /\ call.maxResults <= 10
    /\ Len(fetchLog) <= call.maxArticles
    /\ Len(searchResults) <= call.maxResults
    /\ Len(mentions) <= Len(searchResults)
    /\ \A i \in DOMAIN mentions :
         /\ mentions[i].url = searchResults[i].url
         /\ mentions[i].title = searchResults[i].title
    /\ GatherReturned =>
         LET rec == outcome.value
         IN  /\ rec.totalResults = Len(searchResults)
             /\ rec.mentions = mentions
             /\ Len(rec.mentions) = Min(call.maxArticles, rec.totalResults)

\* The results a call considers are the first results of the provider, in the
\* provider's order.
C15_ProviderOrder ==
  (gpc = "search" /\ gpc' = "loop") =>
    \E payload \in Payloads :
      /\ Len(searchResults') = Min(call.maxResults, Len(payload))
      /\ \A i \in DOMAIN searchResults' : searchResults'[i].url = payload[i].url

\* C15: one call fetches at most maxArticles (at most 5) pages and considers
\* at most maxResults (at most 10) results; the mentions of a returned record
\* are exactly min(maxArticles, totalResults), one per considered result in
\* the provider's order, whether the fetch succeeded or failed.
C15_FetchBounds ==
  /\ []C15_WithinBounds
  /\ [][C15_ProviderOrder]_vars

\* Reached: a returned record of a call whose maxArticles (2) cut the three
\* results short, the first of the two fetches having failed.
C15_Witness ==
  /\ GatherReturned
  /\ call.maxArticles = 2
  /\ outcome.value.totalResults = 3
  /\ Len(outcome.value.mentions) = 2
  /\ FetchFailed(fetchLog[1])
  /\ ~FetchFailed(fetchLog[2])

\* The integer k as a double.
DoubleOfInt(k) == DoubleOfRatio(k, 1)

\* The integer k is the floor of the double x: k <= x < k + 1.
IsFloorOf(k, x) ==
  /\ ~DoubleLt(x, DoubleOfInt(k))
  /\ DoubleLt(x, DoubleOfInt(k + 1))

\* v is what the number x becomes between min and max: its floor, raised to
\* min when x is below min, lowered to max when x is max + 1 or more.
ClampedTo(x, v, min, max) ==
  IF DoubleLt(x, DoubleOfInt(min)) THEN v = min
  ELSE IF ~DoubleLt(x, DoubleOfInt(max + 1)) THEN v = max
  ELSE IsFloorOf(v, x)

ClampedWhenFinite(numericValue, v, min, max) ==
  numericValue.kind = "finite" => ClampedTo(numericValue.value, v, min, max)

\* v is what the caller's value raw becomes between min and max: when raw is
\* a finite number, its floor, raised to min or lowered to max.
Clamped(raw, v, min, max) ==
  /\ v \in min..max
  /\ ClampedWhenFinite(Number(raw), v, min, max)

\* C16: whatever the caller supplied, the maxResults of every call that
\* reaches the search provider is an integer in 1..10 and the maxArticles an
\* integer in 1..5: a finite value is floored, raised to the minimum when
\* below it and lowered to the maximum when above it.
C16_NormalizedArguments ==
  call.op # "none" =>
    /\ Clamped(call.rawResults, call.maxResults, 1, 10)
    /\ call.op = "gatherPublicSentiment" =>
         Clamped(call.rawArticles, call.maxArticles, 1, 5)

\* Reached: the provider has answered a call whose caller asked for 99
\* results and 2.5 articles, searched with 10 and 2.
C16_Witness ==
  /\ gpc = "loop"
  /\ call.rawResults = Num(99, 1)
  /\ call.maxResults = 10
  /\ call.rawArticles = Num(5, 2)
  /\ call.maxArticles = 2

\* The configured provider is Tavily and it answers successfully.
ProviderSucceeds == searchProvider = "tavily" /\ providers["tavily"] = "ok"

\* A successful answer of the provider, whatever it holds, is not raised as
\* an error: the search returns its results and the gathering goes on.
C17_SuccessNotRaised ==
  (gpc = "search" /\ gpc' # "search" /\ ProviderSucceeds) =>
    /\ outcome'.kind # "throw"
    /\ call.op = "searchAgenticTools" =>
         (outcome'.kind = "return" /\ Len(outcome'.value.results) <= call.maxResults)
    /\ call.op = "gatherPublicSentiment" => gpc' = "loop"

\* A gathering over no results fetches nothing and returns the empty record.
C17_EmptyRecord ==
  (gpc = "done" /\ call.op = "gatherPublicSentiment" /\ searchResults = <<>>
     /\ ProviderSucceeds) =>
    /\ fetchLog = <<>>
    /\ outcome.kind = "return"
    /\ outcome.value.totalResults = 0
    /\ outcome.value.mentions = <<>>
    /\ outcome.value.analyzedCount = 0
    /\ outcome.value.summary.rating = "unknown"

\* C17: an empty result set is a valid outcome: a successful answer of the
\* provider with no results gives results = [] without raising, and
\* gatherPublicSentiment then returns totalResults 0, no mentions,
\* analyzedCount 0 and the rating "unknown".
C17_EmptyResultSet ==
  /\ []C17_EmptyRecord
  /\ [][C17_SuccessNotRaised]_vars

\* Reached: gatherPublicSentiment has returned its record over an empty
\* result set.
C17_Witness ==
  /\ GatherReturned
  /\ ProviderSucceeds
  /\ searchResults = <<>>
  /\ outcome.value.totalResults = 0
  /\ outcome.value.summary.rating = "unknown"

(***************************************************************************)
(* The Deduplicator (_deduplicate_tools of the research pipeline).         *)
(***************************************************************************)
MaxCandidates == 3

\* The url up to its query or fragment, a trailing slash removed.
canonicalUrl(url) ==
  LET marks == {i \in DOMAIN url : url[i] \in {"?", "#"}}
      end == IF marks = {} THEN Len(url)
             ELSE (CHOOSE i \in marks : \A k \in marks : i <= k) - 1
      base == SubSeq(url, 1, end)
  IN  IF base # <<>> /\ base[Len(base)] = "/"
        THEN SubSeq(base, 1, Len(base) - 1)
        ELSE base

\* The title case-folded and trimmed.
normalizedTitle(title) == trim(toLowerCase(title))

\* The composite key of a candidate.
normalizedKey(tool) == <<normalizedTitle(tool.title), canonicalUrl(tool.url)>>

\* A deduplication that keeps the last candidate of every key.
deduplicate_toolsMutKeepLast(tools) ==
  LET last == {i \in DOMAIN tools :
                 \A j \in DOMAIN tools :
                   j > i => normalizedKey(tools[j]) # normalizedKey(tools[i])}
  IN  [k \in 1..Cardinality(last) |-> tools[KthOf(last, k)]]

RECURSIVE DedupLoop(_, _, _, _)
\* The loop over the candidates from position i on: seen holds the keys met,
\* unique the candidates kept.
DedupLoop(tools, i, seen, unique) ==
  IF i > Len(tools) THEN unique
  ELSE LET key == normalizedKey(tools[i])
       IN  IF key \in seen
             THEN DedupLoop(tools, i + 1, seen, unique)
             ELSE DedupLoop(tools, i + 1, seen \cup {key}, Append(unique, tools[i]))

\* _deduplicate_tools(tools)
deduplicate_tools(tools) == DedupLoop(tools, 1, {}, <<>>)

\* The candidates of the model: two spellings of one title and another
\* title, under four spellings of two urls.
Site == <<"h", "t", "t", "p", "s", ":", "/", "/", "x", ".", "i", "o">>
CandidateTitles == {<<"A", "i">>, <<" ", "a", "i">>, <<"B">>}
CandidateUrls ==
  {Site \o <<"/", "a">>, Site \o <<"/", "a", "/">>,
   Site \o <<"/", "a", "?", "r">>, Site \o <<"/", "b">>}
Candidates == [title : CandidateTitles, url : CandidateUrls]

\* The candidates handed to the Deduplicator.
DInit ==
  /\ sText = <<>>
  /\ sResult = <<>>
  /\ arg \in SeqsUpTo(Candidates, MaxCandidates)
  /\ ret = <<>>
  /\ lexicon = Lexicon
  /\ UQuiet

\* One call _deduplicate_tools(arg).
Deduplicate ==
  /\ ret = <<>>
  /\ ret' = <<deduplicate_tools(arg)>>
  /\ UNCHANGED <<uvars, sText, sResult, arg, lexicon, gvars, pvars, nvars, cvars>>

\* The output is deduplicated once more, as the next stage would find it.
DeduplicateAgain ==
  /\ ret # <<>>
  /\ arg # ret[1]
  /\ arg' = ret[1]
  /\ ret' = <<deduplicate_tools(ret[1])>>
  /\ UNCHANGED <<uvars, sText, sResult, lexicon, gvars, pvars, nvars, cvars>>

InitDedup == DInit /\ GEnvQuiet /\ GQuiet /\ PInit /\ CQuiet
NextDedup == Deduplicate \/ DeduplicateAgain
SpecDedup == InitDedup /\ [][NextDedup]_vars

\* Two candidates have the same identity: titles equal up to case and
\* surrounding blanks, urls equal up to query, fragment and trailing slash.
SameIdentity(a, b) ==
  /\ trim(toLowerCase(a.title)) = trim(toLowerCase(b.title))
  /\ canonicalUrl(a.url) = canonicalUrl(b.url)

\* The positions of input whose candidate is the first of its identity.
FirstSeen(input) ==
  {i \in DOMAIN input : \A j \in 1..(i - 1) : ~SameIdentity(input[j], input[i])}

\* The output of one call: no two entries of the same identity, and exactly
\* the first-seen candidates of the input in the input's order.
C18_FirstSeenKept ==
  ret # <<>> =>
    LET out == ret[1]
        first == FirstSeen(arg)
    IN  /\ \A i, j \in DOMAIN out : i # j => ~SameIdentity(out[i], out[j])
        /\ Len(out) = Cardinality(first)
        /\ \A k \in DOMAIN out : out[k] = arg[KthOf(first, k)]

\* Deduplicating an output gives that output.
C18_Idempotent == (ret # <<>> /\ ret' # <<>>) => ret' = ret

\* C18: the output of the Deduplicator has no two entries with the same
\* normalized key, is a subsequence of the input and keeps the first
\* candidate of every key; deduplicating an output changes nothing.
C18_Deduplicated ==
  /\ []C18_FirstSeenKept
  /\ [][C18_Idempotent]_vars

\* Reached: three candidates, the second repeating the first's url under
\* another casing of its title, collapsed into two.
C18_Witness ==
  /\ Len(arg) = 3
  /\ arg[1].title # arg[2].title
  /\ SameIdentity(arg[1], arg[2])
  /\ ~SameIdentity(arg[1], arg[3])
  /\ ret = <<(<<arg[1], arg[3]>>)>>

(***************************************************************************)
(* The merge into the catalog (run_claude_research_pipeline).              *)
(***************************************************************************)
MaxBatch == 2
MaxCatalog == 4

\* The lower-cased titles of the existing tools.
existingTitles(existing) ==
  {toLowerCase(existing[i].title) : i \in DOMAIN existing}

\* The largest identifier of the existing tools, 0 when there is none.
maxId(existing) ==
  IF existing = <<>> THEN 0
  ELSE CHOOSE m \in {existing[i].id : i \in DOMAIN existing} :
         \A i \in DOMAIN existing : existing[i].id <= m

\* Filter out duplicates (by lowercase title): the discovered tools whose
\* title no existing tool has.
newTools(existing, discovered) ==
  SelectSeq(discovered,
            LAMBDA t : toLowerCase(t.title) \notin existingTitles(existing))

\* Assign sequential IDs to new tools, from next on.
assignIds(tools, next) ==
  [k \in DOMAIN tools |->
     [id |-> next + k - 1, title |-> tools[k].title, url |-> tools[k].url]]

\* Load, filter, assign, append: the list that is saved back.
mergeTools(existing, discovered) ==
  existing \o assignIds(newTools(existing, discovered), maxId(existing) + 1)

\* What a Run hands to the merge: the tools that came through the
\* Deduplicator.
Batches == {deduplicate_tools(l) : l \in SeqsUpTo(Candidates, MaxBatch)}

\* The catalogs a first merge may load: no two entries share a lower-cased
\* title or an identifier.
Catalogs ==
  { <<>>,
    <<[id |-> 1, title |-> <<"A", "i">>, url |-> Site \o <<"/", "a">>]>>,
    <<[id |-> 2, title |-> <<"B">>, url |-> Site \o <<"/", "b">>],
      [id |-> 5, title |-> <<"a", "i">>, url |-> Site \o <<"/", "a">>]>> }

KInit ==
  /\ runs = <<>>
  /\ catalog \in Catalogs

\* The merge step of a Run: the catalog is loaded, the batch merged into it
\* and the list saved.
Merge ==
  /\ \E batch \in Batches :
       /\ Len(mergeTools(catalog, batch)) <= MaxCatalog
       /\ catalog' = mergeTools(catalog, batch)
  /\ UNCHANGED <<uvars, svars, gvars, runs, nvars, cvars>>

InitMerge == SQuiet /\ GEnvQuiet /\ GQuiet /\ KInit /\ CQuiet
NextMerge == Merge
SpecMerge == InitMerge /\ [][NextMerge]_vars

\* No two entries of the catalog share a case-folded title.
NoTitleTwice ==
  \A i, j \in DOMAIN catalog :
    i # j => toLowerCase(catalog[i].title) # toLowerCase(catalog[j].title)

\* No two entries of the catalog share an identifier.
NoIdTwice ==
  \A i, j \in DOMAIN catalog : i # j => catalog[i].id # catalog[j].id

\* One merge leaves the existing entries as they were, adds no tool whose
\* case-folded title an existing entry has, and gives every added entry an
\* identifier above the maximum before the merge.
MergeStep ==
  /\ IsPrefix(catalog, catalog')
  /\ \A k \in (DOMAIN catalog') \ (DOMAIN catalog) :
       /\ toLowerCase(catalog'[k].title) \notin existingTitles(catalog)
       /\ catalog'[k].id > maxId(catalog)

\* The identifiers stay distinct and every merge is a MergeStep.
C19_IdsAndExistingEntries ==
  /\ []NoIdTwice
  /\ [][MergeStep]_vars

\* C19: after any sequence of merges the catalog has no two entries with the
\* same case-folded title and no two with the same identifier; a tool whose
\* normalized title already exists is dropped, existing entries are left
\* unchanged and every new identifier is above the maximum before the merge.
C19_NoDuplicateEntries ==
  /\ [](NoTitleTwice /\ NoIdTwice)
  /\ [][MergeStep]_vars

(***************************************************************************)
(* The scorer called again and again.                                      *)
(***************************************************************************)
MaxCalls == 3

\* The texts of the calls: empty, without lexicon words, positive, negative,
\* mixed.
RepeatTexts ==
  { <<>>,
    Fill(1),
    <<"G", "r", "e", "a", "t", "!">>,
    <<"s", "l", "o", "w">>,
    <<"9", "f", "a", "s", "t", " ", "H", "A", "T", "E">> }

\* One more call analyzeSentiment(text): arg lists the texts of the calls
\* made so far and ret what each returned; the call finds the two Sets as the
\* calls before it have left them and leaves them as its loop does.
AnalyzeNext ==
  /\ Len(arg) < MaxCalls
  /\ \E text \in RepeatTexts :
       /\ arg' = Append(arg, text)
       /\ ret' = Append(ret, analyzeSentiment(text))
       /\ lexicon' = ScanTokens(tokenize(text)).lexicon
  /\ UNCHANGED <<uvars, sText, sResult, gvars, pvars, nvars, cvars>>

InitRepeat == SQuiet /\ GEnvQuiet /\ GQuiet /\ PInit /\ CQuiet
NextRepeat == AnalyzeNext
SpecRepeat == InitRepeat /\ [][NextRepeat]_vars

\* Calls with the same text have returned the same score, normalizedScore,
\* label and sequence of highlights.
C20_SameTextSameResult ==
  \A i, j \in DOMAIN ret :
    arg[i] = arg[j] =>
      /\ ret[i].score = ret[j].score
      /\ ret[i].normalizedScore = ret[j].normalizedScore
      /\ ret[i].label = ret[j].label
      /\ ret[i].highlights = ret[j].highlights

\* A call leaves the lexicon as the module has created it.
C20_LexiconKept == lexicon' = lexicon /\ lexicon = Lexicon

\* C20: the Sentiment Scorer is a pure function of its text and of the fixed
\* lexicon: whatever calls are made in between, two calls with the same text
\* return the same score, normalizedScore, label and sequence of highlights,
\* and no call changes the two Sets the calls after it read.
C20_Pure == []C20_SameTextSameResult /\ [][C20_LexiconKept]_vars

\* Reached: a text with highlights scored twice, another text with
\* highlights scored in between, and the lexicon as it was created.
C20_Witness ==
  /\ Len(ret) = 3
  /\ arg[1] = arg[3]
  /\ arg[1] # arg[2]
  /\ ret[1].highlights # <<>>
  /\ ret[2].highlights # <<>>
  /\ ret[3] = ret[1]
  /\ lexicon = Lexicon

(***************************************************************************)
(* ClaudeResearchControls against the controller, with progress.           *)
(***************************************************************************)
\* What the browser, the network and the controller do when nothing is lost:
\* requests are handled, responses are delivered, timers fire, React renders
\* and phases end.  The user's actions, the losses and the unmount are left
\* to chance.
ClientFairness ==
  /\ WF_vars(Render)
  /\ WF_vars(HandleStart)
  /\ WF_vars(StartResponse)
  /\ WF_vars(\E c \in DOMAIN conns : StreamOpen(c))
  /\ WF_vars(\E c \in DOMAIN conns : StreamMessage(c))
  /\ WF_vars(TimerTick)
  /\ WF_vars(HandleStatus)
  /\ WF_vars(StatusResponse)
  /\ WF_vars(\E r \in DOMAIN runs : PhaseFinish(r) \/ PhaseFail(r))
FairSpec == Spec /\ ClientFairness

\* The controller has told the client that the Run it started is over: the
\* "complete" event has been delivered on a connection, or a status check
\* has stored a snapshot that says completed or error.
ReportedFinished ==
  \/ \E c \in DOMAIN conns :
       \E i \in DOMAIN Delivered(c) : Delivered(c)[i].type = "complete"
  \/ status \in {"completed", "error"}

\* No EventSource of the client is connecting or open.
NoOpenConnection ==
  \A c \in DOMAIN conns : conns[c].state \notin {"connecting", "open"}

\* C21: once the controller has reported the end of the Run the client
\* started, the control eventually leaves the researching state (where it
\* also invokes onResearchComplete) with its stream connection closed, so
\* that the start button is usable again -- as long as it stays mounted.
C21_EndObserved ==
  (ReportedFinished /\ isResearching)
    ~> ((~isResearching /\ NoOpenConnection) \/ ~mounted)

\* The start handler has set up the stream and the backup interval, and the
\* Run it started is still in progress.
StartedAndRunning ==
  /\ conns # <<>>
  /\ runs # <<>>
  /\ runs[Len(runs)].status = "running"

\* While the Run is in progress the backup interval is set.
C22_TimerWhileRunning == StartedAndRunning => timers # EmptyBag

\* The backup interval is cleared only when the Run is over.
C22_ClearedWhenOver ==
  (timers # EmptyBag /\ timers' = EmptyBag) => runs[Len(runs)].status # "running"

\* C22: the backup polling set up by handleStartResearch keeps checking the
\* status at every tick for as long as the Run is in progress and is cleared
\* once the research has completed, so that polling alone detects the end
\* when the stream fails.
C22_BackupPolling ==
  /\ []C22_TimerWhileRunning
  /\ [][C22_ClearedWhenOver]_vars

\* The EventSources of the client that are not closed.
HeldConnections == {c \in DOMAIN conns : conns[c].state # "closed"}

\* At most one EventSource is held, and it is the one the ref names.
C23_AtMostOne ==
  /\ Cardinality(HeldConnections) <= 1
  /\ \A c \in HeldConnections : c = eventSourceRef

\* No connection is held once the component has unmounted.
C23_NoneAfterUnmount == ~mounted => HeldConnections = {}

\* C23: the control holds at most one open EventSource at every moment; the
\* connection is closed on "complete", on a stream error and when the
\* component unmounts, after which no open connection remains.
C23_OneConnection ==
  /\ [](C23_AtMostOne /\ C23_NoneAfterUnmount)
  /\ \A c \in 1..MaxClicks :
       []((c \in DOMAIN conns /\ TerminalDelivered(c)
             /\ Delivered(c)[conns[c].cursor].type = "complete")
           => conns[c].state = "closed")

\* The caller left the argument out: absent from the tool arguments of an MCP
\* call, absent from the query string of an API request.
Omitted(via, raw) ==
  \/ via = "mcp" /\ raw = Undefined
  \/ via = "api" /\ raw = Null

\* The caller's value is not a number.
NonNumeric(raw) == raw.kind = "string" /\ Number(raw) = NaN

\* C24: a request that omits maxResults (or maxArticles), or gives a value
\* that is not a number, is served with the documented default, 6 results
\* and 3 articles, on the MCP tools and on the HTTP API alike.
C24_DefaultsWhenOmitted ==
  call.op # "none" =>
    /\ (Omitted(call.via, call.rawResults) \/ NonNumeric(call.rawResults))
         => call.maxResults = 6
    /\ call.op = "gatherPublicSentiment" =>
         ((Omitted(call.via, call.rawArticles) \/ NonNumeric(call.rawArticles))
            => call.maxArticles = 3)

\* The same on the MCP endpoint alone.
C24_DefaultsOnMcp == call.op # "none" /\ call.via = "mcp" => C24_DefaultsWhenOmitted

(***************************************************************************)
(* fetchTools and ToolsSection.                                            *)
(***************************************************************************)
MaxLoads == 5

\* getFallbackTools(): the built-in list, by title.
getFallbackTools == <<"GitHub Copilot", "Cursor", "Aider">>

\* The lists GET /tools may answer with.
ApiLists == {<<>>, <<"Cursor">>, <<"Cursor", "Amazon CodeWhisperer">>}

\* What the fetch of GET /tools may do: reject, answer with a status that is
\* not OK, answer OK with a body that is not JSON, answer OK with a list.
ToolFetches ==
  {[kind |-> "reject"], [kind |-> "status"], [kind |-> "badjson"]}
    \cup {[kind |-> "ok", data |-> l] : l \in ApiLists}

\* A fetchTools that lets the error out.
fetchToolsMutRethrow(fetched) ==
  IF fetched.kind = "ok"
    THEN [settled |-> "resolved", value |-> fetched.data]
    ELSE [settled |-> "rejected"]

\* fetchTools(): the list of the API, or the fallback from the catch block.
fetchTools(fetched) ==
  IF fetched.kind = "ok"
    THEN [settled |-> "resolved", value |-> fetched.data]
    ELSE [settled |-> "resolved", value |-> getFallbackTools]

\* ToolsSection after mounting: its mount effect has called loadTools(),
\* which has set loading and awaits fetchTools().
TInit ==
  toolsSection = [mounted |-> TRUE, tools |-> <<>>, loading |-> TRUE,
                  error |-> "null", awaiting |-> 1, fetched |-> <<>>,
                  setToolsCalls |-> 0, loads |-> 1]

\* handleResearchComplete().
LoadTools ==
  /\ toolsSection.loads < MaxLoads
  /\ toolsSection' = handleResearchComplete(toolsSection)
  /\ UNCHANGED <<svars, gvars, pvars, nvars, cvars, researchControls, tagSelector>>

\* loadTools() after its await: the list is stored, or the catch block sets
\* the error; the finally block ends the loading.
LoadToolsSettle ==
  /\ toolsSection.awaiting > 0
  /\ \E fetched \in ToolFetches :
       LET data == fetchTools(fetched)
       IN  toolsSection' =
             IF data.settled = "resolved"
               THEN [toolsSection EXCEPT !.tools = data.value,
                                         !.setToolsCalls = @ + 1,
                                         !.loading = FALSE,
                                         !.awaiting = @ - 1,
                                         !.fetched = <<fetched>>]
               ELSE [toolsSection EXCEPT !.error = "Failed to load tools. Using fallback data.",
                                         !.loading = FALSE,
                                         !.awaiting = @ - 1,
                                         !.fetched = <<fetched>>]
  /\ UNCHANGED <<svars, gvars, pvars, nvars, cvars, researchControls, tagSelector>>

InitTools ==
  /\ sText = <<>> /\ sResult = <<>> /\ FQuiet
  /\ TInit /\ RQuiet /\ EQuiet
  /\ GEnvQuiet /\ GQuiet /\ PInit /\ CQuiet
NextTools == LoadTools \/ LoadToolsSettle
SpecTools == InitTools /\ [][NextTools]_vars

\* fetchTools has never rejected (the catch block of loadTools has not run);
\* when no load is under way, loading is false and a list has been set.
C25_Loaded ==
  /\ toolsSection.error = "null"
  /\ toolsSection.awaiting = 0 =>
       /\ ~toolsSection.loading
       /\ toolsSection.setToolsCalls = toolsSection.loads

\* The load that has just ended set the list of the API, or the fallback list
\* when the fetch failed or was answered with a status that is not OK.
C25_ListOrFallback ==
  toolsSection'.awaiting < toolsSection.awaiting =>
    LET fetched == toolsSection'.fetched[1]
    IN  /\ ~toolsSection'.loading
        /\ toolsSection'.tools =
             IF fetched.kind = "ok" THEN fetched.data ELSE getFallbackTools

\* C25: fetchTools never rejects: on a network error or a response that is
\* not OK it resolves with the fallback list, so that loadTools always ends
\* with loading = false and a tool list set.
C25_FetchToolsNeverRejects ==
  /\ []C25_Loaded
  /\ [][C25_ListOrFallback]_vars

\* Reached: a load whose fetch was answered with a bad status has ended with
\* the fallback list on the page.
C25_Witness ==
  /\ toolsSection.awaiting = 0
  /\ toolsSection.fetched = <<[kind |-> "status"]>>
  /\ toolsSection.tools = getFallbackTools
  /\ ~toolsSection.loading

(***************************************************************************)
(* ResearchControls of the header (Header.tsx) against the controller.     *)
(***************************************************************************)
MaxTriggers == 1
MaxChecks == 2
MaxReports == 2

\* checkStatus() may be called: the model keeps at most MaxChecks status
\* requests in flight.
CheckRoom == BagCardinality(polls) < MaxChecks

\* checkStatus() up to its await, called from a closure that captured
\* isResearching = closure.
getResearchStatus(closure) ==
  polls (+) SetToBag({[closure |-> closure, stage |-> "sent"]})

\* A Run of an earlier session that has completed: the phases in order, each
\* announced and summarised, then the "complete" event.
FinishedRun ==
  [status |-> "completed", phase |-> "done",
   events |-> [k \in 1..(2 * Len(Phases) + 1) |->
                 [run |-> 1, seq |-> k,
                  type |-> IF k = 2 * Len(Phases) + 1 THEN "complete" ELSE "progress",
                  about |-> IF k = 2 * Len(Phases) + 1 THEN "done"
                            ELSE Phases[(k + 1) \div 2]]]]

\* The controller when the page is opened: no Run yet, or the finished Run of
\* an earlier session, which it keeps until the next start.
HInit ==
  /\ runs \in {<<>>, <<FinishedRun>>}
  /\ catalog = <<>>

\* ResearchControls after mounting: the effect has called checkStatus() and
\* set the interval, both with isResearching = false.
RInit ==
  /\ researchControls =
       [mounted |-> TRUE, isResearching |-> FALSE, rendered |-> FALSE,
        status |-> "null", interval |-> <<FALSE>>, timeouts |-> 0,
        onResearchComplete |-> <<>>, runsAtStart |-> 0, triggers |-> 0]
  /\ polls = SetToBag({[closure |-> FALSE, stage |-> "sent"]})

\* The user presses "Start Research": handleStartResearch up to its await.
\* runsAtStart notes how many Runs the controller had had by then.
RcClickStart ==
  /\ researchControls.mounted
  /\ ~researchControls.rendered
  /\ researchControls.triggers < MaxTriggers
  /\ researchControls' = [researchControls EXCEPT !.isResearching = TRUE,
                                                  !.triggers = @ + 1,
                                                  !.runsAtStart = Len(runs)]
  /\ posts' = posts (+) SetToBag({[closure |-> researchControls.rendered,
                                   kind |-> "request"]})
  /\ UNCHANGED <<svars, gvars, pvars, responses, polls, cvars, toolsSection, tagSelector>>

\* React renders with a changed isResearching: the effect's cleanup clears
\* the interval, the effect calls checkStatus() and sets a new interval.
RcRender ==
  /\ researchControls.mounted
  /\ researchControls.rendered # researchControls.isResearching
  /\ CheckRoom
  /\ researchControls' =
       [researchControls EXCEPT !.rendered = researchControls.isResearching,
                                !.interval = <<researchControls.isResearching>>]
  /\ polls' = getResearchStatus(researchControls.isResearching)
  /\ UNCHANGED <<svars, gvars, pvars, posts, responses, cvars, toolsSection, tagSelector>>

\* The interval fires: checkStatus() when the closure saw isResearching.  The
\* interval stays set until the cleanup of the next render clears it, so it
\* may fire after the researching has ended; the model follows it until
\* MaxReports completions have been reported.
RcIntervalTick ==
  /\ researchControls.interval = <<TRUE>>
  /\ CheckRoom
  /\ Len(researchControls.onResearchComplete) < MaxReports
  /\ polls' = getResearchStatus(TRUE)
  /\ UNCHANGED <<svars, gvars, pvars, posts, responses, cvars, uvars>>

\* handleStartResearch after its await: the result is stored and the delayed
\* check scheduled, or the catch block ends the researching.
RcStartResponse ==
  /\ \E resp \in BagToSet(responses) :
       /\ responses' = responses (-) SetToBag({resp})
       /\ researchControls' =
            IF resp.kind = "started"
              THEN [researchControls EXCEPT
                      !.status = IF researchControls.mounted THEN "started" ELSE @,
                      !.timeouts = @ + 1]
              ELSE [researchControls EXCEPT
                      !.isResearching = IF researchControls.mounted THEN FALSE ELSE @]
  /\ UNCHANGED <<svars, gvars, pvars, posts, polls, cvars, toolsSection, tagSelector>>

\* The timeout of handleStartResearch fires: checkStatus(), from the render
\* in which the button was pressed.
RcTimeout ==
  /\ researchControls.timeouts > 0
  /\ CheckRoom
  /\ researchControls' = [researchControls EXCEPT !.timeouts = @ - 1]
  /\ polls' = getResearchStatus(FALSE)
  /\ UNCHANGED <<svars, gvars, pvars, posts, responses, cvars, toolsSection, tagSelector>>

\* The user presses the refresh button.
RcClickRefresh ==
  /\ researchControls.mounted
  /\ ~researchControls.rendered
  /\ CheckRoom
  /\ polls' = getResearchStatus(researchControls.rendered)
  /\ UNCHANGED <<svars, gvars, pvars, posts, responses, cvars, uvars>>

\* checkStatus after its await: the snapshot is stored; if the closure saw
\* isResearching and the snapshot says completed, the researching ends and
\* onResearchComplete is invoked (noted with the Run the snapshot describes;
\* ToolsSection, where it is part of the page, reloads its tools).
RcStatusResponse ==
  /\ \E resp \in BagToSet(polls) :
       /\ resp.stage = "answered"
       /\ polls' = polls (-) SetToBag({resp})
       /\ LET ends == resp.closure /\ resp.status = "completed"
              up == researchControls.mounted
          IN  researchControls' =
                [researchControls EXCEPT
                   !.status = IF up THEN resp.status ELSE @,
                   !.isResearching = IF ends /\ up THEN FALSE ELSE @,
                   !.onResearchComplete =
                      IF ends THEN Append(@, resp.progress[1].run) ELSE @]
       /\ toolsSection' = IF resp.closure /\ resp.status = "completed"
                            THEN handleResearchComplete(toolsSection)
                            ELSE toolsSection
  /\ UNCHANGED <<svars, gvars, pvars, posts, responses, cvars, tagSelector>>

\* The component unmounts: the effect's cleanup clears the interval.
RcUnmount ==
  /\ researchControls.mounted
  /\ researchControls' = [researchControls EXCEPT !.mounted = FALSE,
                                                  !.interval = <<>>]
  /\ UNCHANGED <<svars, gvars, pvars, nvars, cvars, toolsSection, tagSelector>>

\* The client's variables of the other control, at rest.
CRest ==
  /\ conns = <<>>
  /\ timers = EmptyBag
  /\ eventSourceRef = 0
  /\ isResearching = FALSE
  /\ rendered = FALSE
  /\ status = "null"
  /\ progressLog = <<>>
  /\ isConnectedToStream = FALSE
  /\ mounted = FALSE
  /\ budget = 0

InitHeader ==
  /\ sText = <<>> /\ sResult = <<>> /\ FQuiet
  /\ TQuiet /\ RInit /\ EQuiet
  /\ GEnvQuiet /\ GQuiet /\ HInit
  /\ posts = EmptyBag /\ responses = EmptyBag
  /\ CRest
NextHeader ==
  \/ RcClickStart
  \/ RcRender
  \/ RcIntervalTick
  \/ RcStartResponse
  \/ RcTimeout
  \/ RcClickRefresh
  \/ RcStatusResponse
  \/ RcUnmount
  \/ StartRequestLost
  \/ StartResponseLost
  \/ HandleStart
  \/ HandleStatus
  \/ StatusLost
  \/ \E r \in DOMAIN runs : PhaseFinish(r)
  \/ \E r \in DOMAIN runs : PhaseFail(r)
SpecHeader == InitHeader /\ [][NextHeader]_vars

\* The last invocation of onResearchComplete was for a Run started after the
\* button was last pressed.
C26_ForTheNewRun ==
  Len(researchControls'.onResearchComplete) > Len(researchControls.onResearchComplete)
    => researchControls'.onResearchComplete[Len(researchControls'.onResearchComplete)]
         > researchControls.runsAtStart

\* C26: ResearchControls reports completion only for the Run it has just
\* started: a snapshot "completed" that still describes an earlier Run,
\* fetched by the status check that fires while the start request is in
\* flight, never ends the researching state of the new Run.
C26_CompletionOfOwnRun == [][C26_ForTheNewRun]_vars

\* C27: for each Run started from ResearchControls, onResearchComplete is
\* invoked at most once, under every interleaving of the interval check, the
\* delayed check and the status responses in flight.
C27_CompleteAtMostOnce ==
  \A i, j \in DOMAIN researchControls.onResearchComplete :
    (i # j /\ researchControls.onResearchComplete[i] > researchControls.runsAtStart)
      => researchControls.onResearchComplete[i]
           # researchControls.onResearchComplete[j]

\* The step is handleStartResearch resuming on a start that failed: the fetch
\* rejected or the response was not OK.
FailedStartHandled ==
  \E resp \in BagToSet(responses) :
    /\ resp.kind # "started"
    /\ responses' = responses (-) SetToBag({resp})

\* The failed start ends the researching, connects no stream and sets no
\* interval.
C28_NothingStarted ==
  FailedStartHandled =>
    /\ mounted => ~isResearching'
    /\ conns' = conns
    /\ eventSourceRef' = eventSourceRef
    /\ timers' = timers

\* With isResearching false again and rendered, the start button works.
C28_StartPossible ==
  (mounted /\ ~isResearching /\ ~rendered /\ budget > 0) => ENABLED ClickStart

\* C28: if the start request of ClaudeResearchControls fails (network error
\* or a response that is not OK), the control returns to isResearching =
\* false, opens no progress stream and starts no polling timer, and a later
\* start is possible.
C28_FailedStart ==
  /\ [][C28_NothingStarted]_vars
  /\ []C28_StartPossible

\* Reached: the first start failed and was handled, nothing is connected or
\* ticking, and the button is ready for the second start.
C28_Witness ==
  /\ budget = MaxStarts - 1
  /\ posts = EmptyBag
  /\ responses = EmptyBag
  /\ mounted /\ ~isResearching /\ ~rendered
  /\ conns = <<>>
  /\ timers = EmptyBag
  /\ ENABLED ClickStart

(***************************************************************************)
(* POST /mcp: the route and handleMcpCall.                                 *)
(***************************************************************************)
MaxPosts == 2

\* Optional chaining and destructuring: obj?.field, undefined for a value
\* that is no object or has no such member.
Get(obj, field) ==
  IF obj.kind = "object" /\ field \in DOMAIN obj THEN obj[field] ELSE Undefined

\* String.prototype.trim on a string: what lies between its first and its
\* last character that is not white space.
trimString(s) ==
  LET kept == {i \in 1..Len(s) : ~IsSpace(SubSeq(s, i, i))}
  IN  IF kept = {} THEN ""
      ELSE SubSeq(s, CHOOSE i \in kept : \A j \in kept : i <= j,
                     CHOOSE i \in kept : \A j \in kept : i >= j)

\* `${value}` in a template string.
templateText(value) ==
  CASE value.kind = "string" -> value.text
    [] value.kind = "undefined" -> "undefined"
    [] value.kind = "null" -> "null"
    [] value.kind = "boolean" -> IF value.true THEN "true" ELSE "false"
    [] value.kind = "number" /\ value.den = 1 -> ToString(value.num)
    [] value.kind = "array" /\ value.items = <<>> -> ""
    [] value.kind = "object" -> "[object Object]"

\* The ids, methods and params of the messages posted.
McpIds == {Undefined, Num(7, 1)}

McpMethods ==
  {Undefined, Num(7, 1), Str("initialize"), Str("ping"), Str("tools/list"),
   Str("tools/call"), Str("resources/list")}

\* The arguments of a call of websearch_agentic_tools: none, a value that is
\* no object, a query and a number.
McpAgenticArguments ==
  { Undefined,
    Num(5, 1),
    [kind |-> "object", query |-> Str(" mcp agents\n"), maxResults |-> Num(5, 2)] }

\* The arguments of a call of websearch_public_sentiment: none, no member,
\* a toolName that is blank or no string, and a usable toolName with and
\* without numbers.
McpSentimentArguments ==
  { Undefined,
    [kind |-> "object"],
    [kind |-> "object", toolName |-> Str(" \t")],
    [kind |-> "object", toolName |-> Num(7, 1), maxResults |-> Num(5, 2)],
    [kind |-> "object", toolName |-> Str(" cursor "), maxResults |-> Num(5, 2),
     max_articles |-> Str(<<"2">>)],
    [kind |-> "object", toolName |-> Str("cursor")] }

\* The params of a tools/call: none, a value that is no object, a tool
\* that is not registered, and the two tools, named by name or by toolName.
McpParams ==
  { Undefined, Str("x"),
    [kind |-> "object"],
    [kind |-> "object", name |-> Str("websearch")],
    [kind |-> "object", toolName |-> Str("websearch_agentic_tools")] }
  \cup { [kind |-> "object", name |-> Str("websearch_agentic_tools"), arguments |-> a] :
           a \in McpAgenticArguments }
  \cup { [kind |-> "object", name |-> Str("websearch_public_sentiment"),
          arguments |-> a] : a \in McpSentimentArguments }

\* Only tools/call reads the params.
McpMessages ==
  { [kind |-> "object", id |-> i, method |-> Str("tools/call"), params |-> p] :
      i \in McpIds, p \in McpParams } \cup
  { [kind |-> "object", id |-> i, method |-> m] : i \in McpIds, m \in McpMethods } \cup
  { [kind |-> "object"] }

\* The JSON texts that are no object: a number, a string, a boolean, an
\* array.
McpScalars ==
  { Num(5, 1), Str("x"), [kind |-> "boolean", true |-> TRUE],
    [kind |-> "array", items |-> <<>>] }

\* What JSON.parse makes of a request body: a message, a value that is no
\* object, null, or, for the empty body, a SyntaxError.
McpBodies ==
  { [parsed |-> TRUE, message |-> m] : m \in McpMessages \cup McpScalars \cup {Null} }
  \cup { [parsed |-> FALSE, text |-> ""] }

jsonParseError(text) == CASE text = "" -> "Unexpected end of JSON input"

\* tools/call: the tool the message names and the arguments it carries.
calledTool(message) ==
  Coalesce(Get(Get(message, "params"), "name"), Get(Get(message, "params"), "toolName"))

calledArgs(message) ==
  Coalesce(Get(Get(message, "params"), "arguments"), [kind |-> "object"])

argOf(args, field) == Get(args, field)

\* tools.get(toolName): the place of the tool in the map, 0 when there is
\* none.
toolsGet(tools, toolName) ==
  IF toolName.kind = "string" /\ \E i \in DOMAIN tools : tools[i].name = toolName.text
    THEN CHOOSE i \in DOMAIN tools : tools[i].name = toolName.text
    ELSE 0

toolFound(toolName) == toolsGet(toolsMap, toolName) # 0

\* handleMcpCall reaches 'await tool.handler(args)'.
InvokesHandler(message) ==
  /\ Get(message, "method") = Str("tools/call")
  /\ toolFound(calledTool(message))

\* The websearch_public_sentiment handler's toolName, or null.
sentimentToolName(args) ==
  LET t == argOf(args, "toolName")
  IN  IF t.kind = "string" /\ Len(trimString(t.text)) > 0
        THEN Str(trimString(t.text))
        ELSE Null

\* The websearch_agentic_tools handler's query.
agenticQuery(args) ==
  LET q == argOf(args, "query")
  IN  IF q.kind = "string" /\ Len(trimString(q.text)) > 0
        THEN trimString(q.text)
        ELSE DEFAULT_QUERY

toolNameRequired == "toolName is required to gather public sentiment."

\* The handler throws before it awaits anything.
ThrowsAtOnce(message) ==
  /\ calledTool(message) = Str("websearch_public_sentiment")
  /\ sentimentToolName(calledArgs(message)) = Null

\* The call a handler makes with the arguments of the message.
handlerCall(message) ==
  LET args == calledArgs(message)
      rawR == Coalesce(argOf(args, "maxResults"), argOf(args, "max_results"))
      rawA == Coalesce(argOf(args, "maxArticles"), argOf(args, "max_articles"))
  IN  IF calledTool(message) = Str("websearch_public_sentiment")
        THEN [op |-> "gatherPublicSentiment", via |-> "mcp",
              toolName |-> sentimentToolName(args).text,
              rawResults |-> rawR, rawArticles |-> rawA,
              maxResults |-> normalizeNumber(rawR, DEFAULT_MAX_RESULTS,
                                             1, MAX_RESULTS_CAP),
              maxArticles |-> normalizeNumber(rawA, DEFAULT_MAX_ARTICLES,
                                              1, MAX_ARTICLES_CAP)]
        ELSE [op |-> "searchAgenticTools", via |-> "mcp",
              query |-> agenticQuery(args),
              rawResults |-> rawR,
              maxResults |-> normalizeNumber(rawR, DEFAULT_MAX_RESULTS,
                                             1, MAX_RESULTS_CAP)]

\* What a handler's result is wrapped into.
content(payload) == [content |-> <<[type |-> "json", json |-> payload]>>]

\* A handler has not been called, or has not ended.
NoHandled == [kind |-> "none"]

\* What destructuring a null message throws.
cannotDestructure ==
  "Cannot destructure property 'id' of 'message' as it is null."

\* A handleMcpCall whose catch block throws the error again.
handleMcpCallMutRethrow(message, handled) ==
  IF message.kind = "null"
    THEN [threw |-> TRUE, message |-> cannotDestructure, tools |-> toolsMap]
    ELSE
      LET id == Get(message, "id")
          method == Get(message, "method")
          toolName == calledTool(message)
          answer(fields) ==
            [threw |-> FALSE, tools |-> toolsMap,
             value |-> [jsonrpc |-> "2.0", id |-> id] @@ fields]
      IN  CASE method = Str("initialize") ->
                 answer([result |-> [protocol_version |-> "2024-11-05",
                                     server_info |-> SERVER_INFO,
                                     capabilities |-> [tools |-> [available |-> TRUE]]]])
            [] method = Str("ping") ->
                 answer([result |-> [ok |-> TRUE, timestamp |-> toISOString]])
            [] method = Str("tools/list") ->
                 answer([result |->
                           [tools |-> [i \in DOMAIN toolsMap |-> toolsMap[i].definition]]])
            [] method = Str("tools/call") ->
                 IF toolsGet(toolsMap, toolName) = 0
                   THEN answer([error |->
                                  [code |-> 404,
                                   message |-> "Unknown tool: " \o templateText(toolName)]])
                   ELSE IF handled.kind = "throw"
                          THEN [threw |-> TRUE, message |-> handled.message,
                                tools |-> toolsMap]
                          ELSE answer([result |-> content(handled.value)])
            [] OTHER ->
                 answer([error |->
                           [code |-> -32601,
                            message |-> "Unsupported MCP method: " \o templateText(method)]])

\* handleMcpCall(message), where 'handled' is how the tool's handler ends if
\* it is invoked: [kind, value] or [kind, message].  Its outcome is what it
\* returns or throws, together with the tools map as it leaves it: the map
\* is read with values() and get() only.
handleMcpCall(message, handled) ==
  IF message.kind = "null"
    THEN [threw |-> TRUE, message |-> cannotDestructure, tools |-> toolsMap]
    ELSE
      LET id == Get(message, "id")
          method == Get(message, "method")
          toolName == calledTool(message)
          answer(fields) ==
            [threw |-> FALSE, tools |-> toolsMap,
             value |-> [jsonrpc |-> "2.0", id |-> id] @@ fields]
      IN  CASE method = Str("initialize") ->
                 answer([result |-> [protocol_version |-> "2024-11-05",
                                     server_info |-> SERVER_INFO,
                                     capabilities |-> [tools |-> [available |-> TRUE]]]])
            [] method = Str("ping") ->
                 answer([result |-> [ok |-> TRUE, timestamp |-> toISOString]])
            [] method = Str("tools/list") ->
                 answer([result |->
                           [tools |-> [i \in DOMAIN toolsMap |-> toolsMap[i].definition]]])
            [] method = Str("tools/call") ->
                 IF toolsGet(toolsMap, toolName) = 0
                   THEN answer([error |->
                                  [code |-> 404,
                                   message |-> "Unknown tool: " \o templateText(toolName)]])
                   ELSE IF handled.kind = "throw"
                          THEN answer([error |-> [code |-> -32000,
                                                  message |-> handled.message]])
                          ELSE answer([result |-> content(handled.value)])
            [] OTHER ->
                 answer([error |->
                           [code |-> -32601,
                            message |-> "Unsupported MCP method: " \o templateText(method)]])

\* JSON.stringify(payload): a member whose value is undefined is left out.
stringify(payload) ==
  IF payload.id = Undefined
    THEN [f \in DOMAIN payload \ {"id"} |-> payload[f]]
    ELSE payload

\* sendJson(response, 400, ...) of the route's catch block.
parseError(message) ==
  [status |-> 400,
   payload |-> [jsonrpc |-> "2.0",
                error |-> [code |-> -32700, message |-> message],
                id |-> Null]]

\* What the route sends once handleMcpCall has ended with r.
routeAnswer(r) ==
  IF r.threw THEN parseError(r.message)
  ELSE [status |-> 200, payload |-> stringify(r.value)]

\* The route: parse the body, await handleMcpCall, send its answer with 200;
\* anything thrown on the way is answered with 400.  The tools map is as
\* handleMcpCall leaves it.
mcpRoute(body, handled) ==
  IF ~body.parsed
    THEN [response |-> parseError(jsonParseError(body.text)), tools |-> toolsMap]
    ELSE [response |-> routeAnswer(handleMcpCall(body.message, handled)),
          tools |-> handleMcpCall(body.message, handled).tools]

\* A request that is not waiting for a handler has no frame.
NoFrame == [gpc |-> "none"]

\* The frame of a handler that has called its search.
handlerFrame(message) ==
  [call |-> handlerCall(message), gpc |-> "search", searchResults |-> <<>>,
   gi |-> 1, mentions |-> <<>>, fetchLog |-> <<>>, outcome |-> NoHandled]

\* handleMcpCall has to await the handler's search.
Awaits(body) ==
  /\ body.parsed
  /\ InvokesHandler(body.message)
  /\ ~ThrowsAtOnce(body.message)

\* The route has the answer of a body that needs no search.
answeredAtOnce(body) ==
  mcpRoute(body, IF body.parsed /\ InvokesHandler(body.message)
                   THEN [kind |-> "throw", message |-> toolNameRequired]
                   ELSE NoHandled)

\* The provider as the requests of this endpoint find it: it answers, it
\* cannot be reached, or it is one the server does not support.
McpEnvironments ==
  { [searchProvider |-> "tavily", providers |-> [p \in Range(ProviderOrder) |-> "ok"]],
    [searchProvider |-> "tavily",
     providers |-> [p \in Range(ProviderOrder) |->
                      IF p = "tavily" THEN "network" ELSE "ok"]],
    [searchProvider |-> "duckduckgo",
     providers |-> [p \in Range(ProviderOrder) |-> "ok"]] }

MInitMcp ==
  /\ \E env \in McpEnvironments :
       /\ searchProvider = env.searchProvider
       /\ providers = env.providers
  /\ toolsMap = RegisteredTools
  /\ requests = <<>>
  /\ GQuiet

\* What the provider and the pages answer with.
McpPayloads ==
  { <<>>,
    <<[title |-> "Review", url |-> "https://a.example/review"],
      [title |-> "undefined", url |-> "https://b.example/post"]>> }

McpFetchOutcomes ==
  { [kind |-> "reject", message |-> "fetch failed"],
    [kind |-> "response", ok |-> TRUE,
     html |-> <<"<","b",">","G","r","e","a","t","<","/","b",">","\r","\n","f","a","s","t">>] }

MRest ==
  /\ UNCHANGED <<pvars, nvars, cvars, uvars, svars>>
  /\ UNCHANGED <<searchProvider, providers, call, gpc, searchResults, gi, mentions,
                 fetchLog, outcome>>

\* A request arrives on POST /mcp, whatever the requests before it are
\* doing.  The route answers it at once, unless handleMcpCall has to await
\* the handler's search.
McpPost ==
  /\ Len(requests) < MaxPosts
  /\ \E body \in McpBodies :
       IF Awaits(body)
         THEN /\ requests' = Append(requests, [body |-> body, sent |-> <<>>,
                                               frame |-> handlerFrame(body.message)])
              /\ UNCHANGED toolsMap
         ELSE /\ requests' = Append(requests, [body |-> body, frame |-> NoFrame,
                                               sent |-> <<answeredAtOnce(body).response>>])
              /\ toolsMap' = answeredAtOnce(body).tools
  /\ MRest

\* The handler of request i goes on after an await: the search of
\* searchAgenticTools has ended.
McpSearchAgenticTools(i) ==
  /\ AtSearchAgenticTools(requests[i].frame)
  /\ \E payload \in McpPayloads :
       requests' = [requests EXCEPT ![i].frame = searchAgenticTools(@, payload)]
  /\ UNCHANGED toolsMap
  /\ MRest

\* The search of gatherPublicSentiment has ended.
McpGatherSearch(i) ==
  /\ AtGatherSearch(requests[i].frame)
  /\ \E payload \in McpPayloads :
       requests' = [requests EXCEPT ![i].frame = gatherSearch(@, payload)]
  /\ UNCHANGED toolsMap
  /\ MRest

\* A fetch of gatherPublicSentiment has ended.
McpGatherFetch(i) ==
  /\ AtGatherFetch(requests[i].frame)
  /\ \E fetched \in McpFetchOutcomes :
       requests' = [requests EXCEPT ![i].frame = gatherFetch(@, fetched)]
  /\ UNCHANGED toolsMap
  /\ MRest

\* gatherPublicSentiment leaves its loop.
McpGatherReturn(i) ==
  /\ AtGatherReturn(requests[i].frame)
  /\ requests' = [requests EXCEPT ![i].frame = gatherReturn(@)]
  /\ UNCHANGED toolsMap
  /\ MRest

\* The handler's search has ended: handleMcpCall resumes after the await and
\* the route sends its answer.
McpRespond(i) ==
  /\ requests[i].frame.gpc = "done"
  /\ requests' = [requests EXCEPT
                    ![i].sent = <<mcpRoute(requests[i].body,
                                           requests[i].frame.outcome).response>>,
                    ![i].frame = NoFrame]
  /\ toolsMap' = mcpRoute(requests[i].body, requests[i].frame.outcome).tools
  /\ MRest

InitMcp == SQuiet /\ MInitMcp /\ PInit /\ CQuiet
NextMcp ==
  \/ McpPost
  \/ \E i \in DOMAIN requests : McpSearchAgenticTools(i)
  \/ \E i \in DOMAIN requests : McpGatherSearch(i)
  \/ \E i \in DOMAIN requests : McpGatherFetch(i)
  \/ \E i \in DOMAIN requests : McpGatherReturn(i)
  \/ \E i \in DOMAIN requests : McpRespond(i)
SpecMcp == InitMcp /\ [][NextMcp]_vars

\* A body that is a message: any JSON value but null.
IsMessage(body) == body.parsed /\ body.message.kind # "null"

\* The payload has an error member.
HasErrorMember(payload) == "error" \in DOMAIN payload

HasResult(payload) == "result" \in DOMAIN payload

\* The answer carries the id of the message: the same value, and no id
\* where the message has none.
CarriesId(payload, message) ==
  IF Get(message, "id") = Undefined
    THEN "id" \notin DOMAIN payload
    ELSE "id" \in DOMAIN payload /\ payload.id = Get(message, "id")

\* C29 (answer): a request has at most one answer.  An answered message has
\* got status 200 and a response with its own id and with a result or an
\* error, not both and not neither; a body that is no message (null, or no
\* JSON) has got 400 with the error -32700 and no result.  A request not yet
\* answered is one whose handler is still running.
C29_OneAnswer ==
  \A i \in DOMAIN requests :
    LET request == requests[i]
    IN  /\ Len(request.sent) <= 1
        /\ request.sent = <<>> =>
             (request.frame.gpc \in {"search", "loop", "done"} /\ Awaits(request.body))
        /\ request.sent # <<>> =>
             /\ request.frame = NoFrame
             /\ request.sent[1].payload.jsonrpc = "2.0"
             /\ HasResult(request.sent[1].payload) # HasErrorMember(request.sent[1].payload)
             /\ IF IsMessage(request.body)
                  THEN /\ request.sent[1].status = 200
                       /\ CarriesId(request.sent[1].payload, request.body.message)
                  ELSE /\ request.sent[1].status = 400
                       /\ request.sent[1].payload.error.code = -32700
                       /\ request.sent[1].payload.id = Null

\* C29 (once): a request that has been answered is not answered again, and
\* no request is forgotten.
C29_AnsweredOnce ==
  /\ Len(requests') >= Len(requests)
  /\ \A i \in DOMAIN requests :
       requests[i].sent # <<>> => requests'[i] = requests[i]

\* C29 (codes): an unregistered tool is answered with 404, a missing
\* toolName of websearch_public_sentiment with -32000 and the handler's
\* message, any method that is not one of the four with -32601, and the four
\* methods otherwise with a result or with -32000.
C29_Codes ==
  \A i \in DOMAIN requests :
    (requests[i].sent # <<>> /\ IsMessage(requests[i].body)) =>
      LET message == requests[i].body.message
          payload == requests[i].sent[1].payload
          method == Get(message, "method")
      IN  /\ (method = Str("tools/call") /\ ~toolFound(calledTool(message))) =>
               (HasErrorMember(payload) /\ payload.error.code = 404)
          /\ (InvokesHandler(message) /\ ThrowsAtOnce(message)) =>
               (HasErrorMember(payload) /\ payload.error =
                  [code |-> -32000, message |-> toolNameRequired])
          /\ method \notin {Str("initialize"), Str("ping"), Str("tools/list"),
                            Str("tools/call")} =>
               (HasErrorMember(payload) /\ payload.error.code = -32601)
          /\ method \in {Str("initialize"), Str("ping"), Str("tools/list")} =>
               HasResult(payload)
          /\ InvokesHandler(message) =>
               (HasResult(payload) \/ payload.error.code = -32000)

\* C29 (failed search): when the handler's search has thrown, the answer is
\* the error -32000 with the message thrown; when it has returned, the
\* answer is its result; either way with status 200.
C29_HandlerEnd ==
  \A i \in DOMAIN requests :
    (requests[i].frame.gpc = "done" /\ requests'[i].sent # <<>>) =>
      LET outcomeOf == requests[i].frame.outcome
          answer == requests'[i].sent[1]
      IN  /\ answer.status = 200
          /\ outcomeOf.kind = "throw" =>
               (HasErrorMember(answer.payload) /\ answer.payload.error =
                  [code |-> -32000, message |-> outcomeOf.message])
          /\ outcomeOf.kind = "return" =>
               (HasResult(answer.payload) /\
                answer.payload.result = content(outcomeOf.value))

\* C29 (registry): no call adds or removes a registered tool.
C29_RegistryKept == toolsMap' = toolsMap /\ toolsMap = RegisteredTools

\* C29: handleMcpCall answers every JSON-RPC message once, with the
\* request's id and with a result or an error; 404 for an unregistered tool,
\* -32000 with the message for a handler that throws, -32601 for an
\* unsupported method; the registered tools stay as they are.
C29_McpAnswers ==
  /\ [](C29_OneAnswer /\ C29_Codes)
  /\ [][C29_AnsweredOnce /\ C29_HandlerEnd /\ C29_RegistryKept]_vars

\* While the first request waits for its search, a second one has come, its
\* search has failed, and it has been answered with -32000 and the
\* provider's message under its own id.
C29_Witness ==
  /\ Len(requests) = 2
  /\ requests[1].sent = <<>>
  /\ requests[1].frame.gpc = "search"
  /\ requests[2].sent # <<>>
  /\ requests[2].body.parsed
  /\ ~ThrowsAtOnce(requests[2].body.message)
  /\ Get(requests[2].body.message, "id") = Num(7, 1)
  /\ HasErrorMember(requests[2].sent[1].payload)
  /\ requests[2].sent[1].payload.error = [code |-> -32000, message |-> "fetch failed"]
  /\ requests[2].sent[1].payload.id = Num(7, 1)

(***************************************************************************)
(* TagSelector inside ResearchControls: the tags of the next research.     *)
(***************************************************************************)
MaxTagOps == 4

includes(list, x) == x \in Range(list)
filterNot(list, tag) == SelectSeq(list, LAMBDA t : t # tag)

\* What GET /tools/research/tags answers with: a list of distinct tags, a
\* short one and one of more than twelve ("Show 1 More Tags").
TagLists ==
  { <<"ai", "cursor">>,
    <<"agents", "ai", "api", "cli", "code", "cursor", "ide", "llm", "mcp",
      "rag", "sdk", "test", "web">> }

\* What the user types into "Add custom tag...".
NewTagTexts == {"", " ", " cursor ", "rust"}

\* ResearchControls has mounted: no tag is known, loadTags() awaits
\* getResearchTags(), and the TagSelector is on the page with an empty
\* input and showAll false.
EInit ==
  tagSelector = [mounted |-> TRUE, availableTags |-> <<>>, selectedTags |-> <<>>,
                 customTags |-> <<>>, newTag |-> "", showAll |-> FALSE,
                 loadTags |-> "pending", ops |-> 0]

ECount == tagSelector.ops < MaxTagOps
ERest == UNCHANGED <<svars, gvars, pvars, nvars, cvars, toolsSection, researchControls>>

\* loadTags() after its await: the tags are stored and the first five are
\* selected, or the catch block logs the error.
LoadTagsSettle ==
  /\ tagSelector.loadTags = "pending"
  /\ \/ \E tags \in TagLists :
          tagSelector' = [tagSelector EXCEPT !.availableTags = tags,
                                             !.selectedTags = slice(tags, 5),
                                             !.loadTags = "done"]
     \/ tagSelector' = [tagSelector EXCEPT !.loadTags = "failed"]
  /\ ERest

\* The user types into the input: setNewTag(e.target.value).
TypeNewTag ==
  /\ tagSelector.mounted
  /\ \E text \in NewTagTexts :
       /\ text # tagSelector.newTag
       /\ tagSelector' = [tagSelector EXCEPT !.newTag = text]
  /\ ERest

\* The tags the grid shows: all of them, or the first twelve.
displayedTags ==
  IF tagSelector.showAll THEN tagSelector.availableTags
  ELSE slice(tagSelector.availableTags, 12)
hasMore == Len(tagSelector.availableTags) > 12

\* "Show n More Tags" / "Show Less", rendered when there are more than
\* twelve tags: setShowAll(!showAll).
setShowAll ==
  /\ tagSelector.mounted
  /\ hasMore
  /\ tagSelector' = [tagSelector EXCEPT !.showAll = ~@]
  /\ ERest

handleToggleTag(tag) ==
  /\ ECount
  /\ tagSelector' =
       [tagSelector EXCEPT
          !.selectedTags = IF includes(@, tag) THEN filterNot(@, tag)
                           ELSE Append(@, tag),
          !.ops = @ + 1]
  /\ ERest

\* The user clicks a tag of the grid or a custom tag's badge.
ToggleTag ==
  \E tag \in Range(displayedTags) \cup Range(tagSelector.customTags) :
    handleToggleTag(tag)

\* The user presses Enter in the input or clicks "Add".
handleAddCustomTag ==
  LET trimmed == trimString(tagSelector.newTag)
  IN  /\ ECount
      /\ tagSelector' =
           IF /\ trimmed # ""
              /\ ~includes(tagSelector.customTags, trimmed)
              /\ ~includes(tagSelector.availableTags, trimmed)
             THEN [tagSelector EXCEPT !.customTags = Append(@, trimmed),
                                      !.selectedTags = Append(@, trimmed),
                                      !.newTag = "",
                                      !.ops = @ + 1]
             ELSE tagSelector
      /\ ERest

handleRemoveCustomTagMutKeepSelected(tag) ==
  /\ ECount
  /\ tagSelector' = [tagSelector EXCEPT !.customTags = filterNot(@, tag),
                                        !.ops = @ + 1]
  /\ ERest

handleRemoveCustomTag(tag) ==
  /\ ECount
  /\ tagSelector' = [tagSelector EXCEPT !.customTags = filterNot(@, tag),
                                        !.selectedTags = filterNot(@, tag),
                                        !.ops = @ + 1]
  /\ ERest

\* The user clicks the cross of a custom tag.
RemoveCustomTag ==
  \E tag \in Range(tagSelector.customTags) : handleRemoveCustomTag(tag)

allTags == tagSelector.availableTags \o tagSelector.customTags

\* "Select All", enabled unless as many tags are selected as there are.
handleSelectAll ==
  /\ ECount
  /\ Len(tagSelector.selectedTags) # Len(allTags)
  /\ tagSelector' = [tagSelector EXCEPT !.selectedTags = allTags, !.ops = @ + 1]
  /\ ERest

\* "Clear All", enabled unless nothing is selected.
handleDeselectAll ==
  /\ ECount
  /\ Len(tagSelector.selectedTags) # 0
  /\ tagSelector' = [tagSelector EXCEPT !.selectedTags = <<>>, !.ops = @ + 1]
  /\ ERest

InitTags ==
  /\ sText = <<>> /\ sResult = <<>> /\ FQuiet
  /\ TQuiet /\ RQuiet /\ EInit
  /\ GEnvQuiet /\ GQuiet /\ PInit /\ CQuiet
NextTags ==
  \/ LoadTagsSettle
  \/ TypeNewTag
  \/ setShowAll
  \/ ToggleTag
  \/ handleAddCustomTag
  \/ RemoveCustomTag
  \/ handleSelectAll
  \/ handleDeselectAll
SpecTags == InitTags /\ [][NextTags]_vars

NoDuplicates(list) == \A i, j \in DOMAIN list : i # j => list[i] # list[j]

WellFormed(t) ==
  /\ NoDuplicates(t.selectedTags)
  /\ Range(t.selectedTags) \subseteq Range(t.availableTags) \cup Range(t.customTags)
  /\ NoDuplicates(t.customTags)
  /\ Range(t.customTags) \cap Range(t.availableTags) = {}

\* A step of one of the five handlers: each of them counts itself in ops.
HandlerStep == tagSelector'.ops # tagSelector.ops

\* While loadTags() has not stored the server's tags, the operations have
\* started from the empty selection of the mount.
C30_FromMount == tagSelector.loadTags # "done" => WellFormed(tagSelector)

\* From a selection without duplicates within the known tags (custom tags
\* without duplicates and apart from the available ones), a toggle, an
\* added custom tag, a removed custom tag, Select All or Clear All gives
\* such a selection again, and the custom tags a step has removed are
\* selected no more.
C30_HandlersKeepForm ==
  (WellFormed(tagSelector) /\ HandlerStep) =>
    /\ WellFormed(tagSelector')
    /\ \A tag \in Range(tagSelector.customTags) \ Range(tagSelector'.customTags) :
         ~includes(tagSelector'.selectedTags, tag)

\* The tags a step of the handlers may touch: the available ones are the
\* parent's (loadTags), and the custom ones change by one tag at most.
C30_HandlersOwnTags ==
  HandlerStep =>
    /\ tagSelector'.availableTags = tagSelector.availableTags
    /\ \/ tagSelector'.customTags = tagSelector.customTags
       \/ \E tag \in Range(tagSelector.customTags) :
            tagSelector'.customTags = filterNot(tagSelector.customTags, tag)
       \/ /\ Len(tagSelector'.customTags) = Len(tagSelector.customTags) + 1
          /\ SubSeq(tagSelector'.customTags, 1, Len(tagSelector.customTags))
               = tagSelector.customTags
          /\ tagSelector'.customTags[Len(tagSelector'.customTags)]
               = trimString(tagSelector.newTag)

\* C30: after any sequence of TagSelector operations (toggle, add custom
\* tag, remove custom tag, select all, clear all) that starts from a
\* selection without duplicates within the known tags, selectedTags has no
\* duplicate and lies within availableTags and customTags, customTags has
\* no duplicate and shares no tag with availableTags, and removing a custom
\* tag removes it from selectedTags as well.
C30_Handlers ==
  []C30_FromMount /\ [][C30_HandlersKeepForm /\ C30_HandlersOwnTags]_vars

\* The server's thirteen tags are stored, the user has added the custom tag
\* "rust" (typed with nothing around it), pressed Select All, and toggled a
\* tag of the grid off: fourteen tags are known and thirteen are selected.
C30_Witness ==
  /\ tagSelector.loadTags = "done"
  /\ Len(tagSelector.availableTags) = 13
  /\ tagSelector.customTags = <<"rust">>
  /\ tagSelector.ops >= 3
  /\ Len(tagSelector.selectedTags) = 13
  /\ includes(tagSelector.selectedTags, "rust")
  /\ WellFormed(tagSelector)

====
